---- MODULE Spec2Model ----
(***************************************************************************)
(* Quote aggregation and caching layer of backend/services/stock_data.py,  *)
(* the ranking endpoint of backend/routers/stocks.py and the bot endpoints *)
(* of backend/routers/posts.py.                                            *)
(*                                                                         *)
(* The specifications share the module state:                              *)
(*   Spec        sequential calls of fetch_stock_data and                  *)
(*               fetch_stock_data_detailed (cache, provider chain);        *)
(*   SpecRaw     the same calls on inputs whose cleaned form is not clean; *)
(*   SpecRate    threads running _rate_limit_wait and the primary-provider *)
(*               requests that follow it, at sub-second resolution;        *)
(*   SpecToken   threads running _get_jquants_token statement by           *)
(*               statement; SpecTokenSingle one caller, hour by hour;      *)
(*   SpecPages   the page loops of the two paginated fetches;              *)
(*   SpecListed  sequential calls of get_listed_stocks;                    *)
(*   SpecPopular get_stock_rankings over the configured symbols;           *)
(*   SpecMovers  get_stock_rankings with scope "all" and the cache of      *)
(*               get_market_movers_all;                                    *)
(*   SpecCacheThreads  threads running _set_cache and _get_cached_data     *)
(*               statement by statement;                                   *)
(*   SpecBot     requests to /posts/bot/publish and /posts/bot/summary;    *)
(*   SpecAttempt single attempts on the primary provider;                  *)
(*   SpecSecondary  the chain and the paginated fetches as clients of the  *)
(*               secondary provider;                                       *)
(*   SpecKana    the search filter on kana queries and names.              *)
(*                                                                         *)
(* Python's None is the empty set and a present value x is {x}.            *)
(***************************************************************************)
EXTENDS Integers, Sequences, FiniteSets, TLC

VARIABLES
    now,                  \* datetime.now(), in minutes
    timeNow,              \* time.time(), in ticks of 1/TicksPerSecond s
    stock_cache,          \* _stock_cache: canonical symbol -> record
    cache_expiry,         \* _cache_expiry: canonical symbol -> minute
    jquants_id_token,     \* _jquants_id_token (the token is named by the
                          \* minute of the exchange that issued it)
    jquants_token_expiry, \* _jquants_token_expiry
    refresh_configured,   \* JQUANTS_REFRESH_TOKEN is a non-empty string
    last_request_time,    \* _last_request_time
    pc,                   \* position of the running chain call
    kind,                 \* "basic" | "detailed" | "none"
    symbols,              \* the call's argument (raw symbols)
    idx,                  \* index of the symbol being processed
    results,              \* fetch_stock_data's result mapping
    ret,                  \* fetch_stock_data_detailed's return value
    raised,               \* an exception escaped the running call
    cur,                  \* history: steps taken for the current symbol
    outcomes,             \* history: per position, the step that ended it
    lastCached,           \* history: last record cached per key, and when
    nprocessed,           \* history: number of symbols the calls were given
    tpc,                  \* SpecRate/SpecToken: each thread's position
    tloc,                 \* SpecRate/SpecToken: each thread's locals
    hist,                 \* SpecRate/SpecToken: history of the run
    listed_cache,         \* _listed_cache: the directory snapshot
    listed_cache_expiry,  \* _listed_cache_expiry
    dcall,                \* the running call of get_listed_stocks or of
                          \* _fetch_jquants_daily_quotes_all
    popular_symbols,      \* symbols_to_use of routers/stocks.py
    market_movers_cache,  \* _market_movers_cache
    market_movers_expiry, \* _market_movers_expiry
    rcall,                \* the running call of get_stock_rankings
    bot_api_key,          \* BOT_API_KEY of routers/posts.py
    bot_user_id,          \* BOT_USER_ID of routers/posts.py
    db_users,             \* ids of the rows of table users
    db_stocks,            \* rows of table stocks
    db_posts,             \* rows of table posts, in insertion order
    bresp                 \* the last response of a bot endpoint

chainVars == <<pc, kind, symbols, idx, results, ret, raised, cur, outcomes,
               lastCached, nprocessed>>
cacheVars == <<stock_cache, cache_expiry>>
tokenVars == <<jquants_id_token, jquants_token_expiry>>
threadVars == <<tpc, tloc, hist>>
dirVars == <<listed_cache, listed_cache_expiry, dcall>>
rankVars == <<popular_symbols, market_movers_cache, market_movers_expiry,
              rcall>>
botVars == <<bot_api_key, bot_user_id, db_users, db_stocks, db_posts, bresp>>
appVars == <<rankVars, botVars>>
\* what the chain, the rate limiter and the token manager never write
restVars == <<refresh_configured, dirVars, appVars>>
vars == <<now, timeNow, stock_cache, cache_expiry, jquants_id_token,
          jquants_token_expiry, refresh_configured, last_request_time,
          pc, kind, symbols, idx, results, ret, raised, cur, outcomes,
          lastCached, nprocessed, tpc, tloc, hist, listed_cache,
          listed_cache_expiry, dcall, popular_symbols, market_movers_cache,
          market_movers_expiry, rcall, bot_api_key, bot_user_id, db_users,
          db_stocks, db_posts, bresp>>

(***************************************************************************)
(* Program constants.                                                      *)
(***************************************************************************)
CACHE_DURATION == 5
TOKEN_VALID_HOURS == 23
MIN_REQUEST_INTERVAL == 1
LISTED_CACHE_DURATION == 24
LISTED_MAX_PAGES == 500
QUOTES_MAX_PAGES == 200
MARKET_MOVERS_CACHE_DURATION == 30
LIMIT_MIN == 1

(***************************************************************************)
(* Bounds of the model.                                                    *)
(***************************************************************************)
MaxMinutes == 5
MaxProcessed == 2
TicksPerSecond == 2
MaxTicks == 4
MaxHours == 24
NThreads == 2
MaxListedPages == 2
DirTickHours == 8
MaxDirTicks == 4
MaxLimit == 3
MoversTickMinutes == 10
MaxMoversTicks == 3
MaxPosts == 2
MaxKanaLen == 2

TokenTTL == TOKEN_VALID_HOURS * 60
MinInterval == MIN_REQUEST_INTERVAL * TicksPerSecond
ListedTTL == LISTED_CACHE_DURATION * 60
TicksPerMinute == 60 * TicksPerSecond

None == {}
Some(x) == {x}
The(opt) == CHOOSE x \in opt : TRUE
EmptyMap == <<>>

(***************************************************************************)
(* Symbols are sequences of characters.                                    *)
(***************************************************************************)
RawSymbols == { <<"7">>, <<"7", ".", "T">>, <<" ", "a">> }

Upper(c) == IF c = "a" THEN "A" ELSE IF c = "t" THEN "T" ELSE c
IsSpace(c) == c = " "
IsDigit(c) == c = "7"

UpperSeq(s) == [i \in 1..Len(s) |-> Upper(s[i])]

RECURSIVE LStrip(_)
LStrip(s) ==
    IF s # <<>> /\ IsSpace(s[1]) THEN LStrip(Tail(s)) ELSE s

RECURSIVE RStrip(_)
RStrip(s) ==
    IF s # <<>> /\ IsSpace(s[Len(s)]) THEN RStrip(SubSeq(s, 1, Len(s) - 1)) ELSE s

Strip(s) == RStrip(LStrip(s))

\* str.replace(".T", ""): left to right, non-overlapping, one pass
RECURSIVE ReplaceDotT(_)
ReplaceDotT(s) ==
    IF s = <<>> THEN <<>>
    ELSE IF Len(s) >= 2 /\ s[1] = "." /\ s[2] = "T"
         THEN ReplaceDotT(SubSeq(s, 3, Len(s)))
         ELSE <<s[1]>> \o ReplaceDotT(Tail(s))

IsDigitStr(s) == s # <<>> /\ \A i \in 1..Len(s) : IsDigit(s[i])

NormalizeSymbol(symbol) ==
    LET cleaned == UpperSeq(Strip(symbol))
    IN  IF IsDigitStr(cleaned) THEN cleaned \o <<".", "T">> ELSE cleaned

CleanSymbol(symbol) == ReplaceDotT(UpperSeq(Strip(symbol)))

(***************************************************************************)
(* Values exchanged with the providers.                                    *)
(***************************************************************************)
Prices == {0, 100}
OptPrice == {None} \cup {Some(p) : p \in Prices}
\* the zero price is drawn for fast_info only
NonZeroPrice == {p \in OptPrice : p # Some(0)}

\* Python truth value of an optional number, and "a or b"
Truthy(opt) == opt # None /\ The(opt) # 0
PyOr(a, b) == IF Truthy(a) THEN a ELSE b

Record(symbol, price, source, note, detail) ==
    [symbol |-> symbol, price |-> price, source |-> source, note |-> note,
     detail |-> detail, change_pct |-> None]

\* "change_pct = (change / previous_close) * 100" when there is a price and
\* a previous close that is not zero (the quotients of the model are whole)
ChangePct(price, previous_close) ==
    IF price # None /\ Truthy(previous_close)
    THEN Some(((The(price) - The(previous_close)) * 100) \div The(previous_close))
    ELSE None

\* what ticker.fast_info and ticker.info answer
FastOutcomes ==
    {[kind |-> "ok", price |-> p, previous_close |-> None] : p \in OptPrice}
    \cup {[kind |-> k, price |-> None, previous_close |-> None] :
              k \in {"ratelimit", "error"}}
InfoOutcomes ==
    {[kind |-> "ok", price |-> p, named |-> n, previous_close |-> None] :
         p \in NonZeroPrice, n \in BOOLEAN}
    \cup {[kind |-> k, price |-> None, named |-> FALSE, previous_close |-> None] :
              k \in {"ratelimit", "error"}}
\* ticker: yf.Ticker(...) itself; dividends: ticker.dividends
PrimaryEnvs ==
    [ticker : {"ok", "exc"}, fast : FastOutcomes, info : InfoOutcomes,
     dividends : {"ok", "exc"}]

\* answers of POST /token/auth_refresh
ExchangeResponses == {"ok", "ok_noid", "non200", "exception"}
\* answers of GET /prices/daily_quotes (price: the latest close)
QuoteResponses ==
    {[kind |-> "ok", price |-> p, previous_close |-> None] : p \in NonZeroPrice}
    \cup {[kind |-> k, price |-> None, previous_close |-> None] :
              k \in {"empty", "non200", "exception"}}

\* the result of a block that may raise
Returned(data) == [exc |-> FALSE, data |-> data]
Raised == [exc |-> TRUE, data |-> None]

(***************************************************************************)
(* Quote cache.                                                            *)
(***************************************************************************)
Put(map, k, v) == (k :> v) @@ map

\* mutant: the expiry is not looked at
GetCachedData_IgnoreExpiry(symbol) ==
    LET cleaned == CleanSymbol(symbol)
    IN  IF cleaned \in DOMAIN stock_cache THEN Some(stock_cache[cleaned]) ELSE None

GetCachedData(symbol) ==
    LET cleaned == CleanSymbol(symbol)
    IN  IF cleaned \in DOMAIN stock_cache
           /\ cleaned \in DOMAIN cache_expiry
           /\ now < cache_expiry[cleaned]
        THEN Some(stock_cache[cleaned])
        ELSE None

\* mutant: the expiry is stamped without the cache duration
SetCacheExpiry_NoDuration(symbol) == Put(cache_expiry, CleanSymbol(symbol), now)

\* mutant: an entry that exists is kept
SetCacheData_KeepExisting(symbol, data) ==
    IF CleanSymbol(symbol) \in DOMAIN stock_cache
    THEN stock_cache
    ELSE Put(stock_cache, CleanSymbol(symbol), data)

SetCacheData(symbol, data) == Put(stock_cache, CleanSymbol(symbol), data)
SetCacheExpiry(symbol) == Put(cache_expiry, CleanSymbol(symbol), now + CACHE_DURATION)

(***************************************************************************)
(* Token manager, as one call.                                             *)
(***************************************************************************)
\* mutant: the token is still handed out at the minute it expires
TokenValid_Inclusive(tok, exp, t) == tok # None /\ exp # None /\ t <= The(exp)

\* "_jquants_id_token and _jquants_token_expiry and now < expiry"
TokenValid(tok, exp, t) == tok # None /\ exp # None /\ t < The(exp)

\* mutant: the expiry is stamped with the provider's full lifetime
TokenExpiry_FullLifetime(t) == t + (TOKEN_VALID_HOURS + 1) * 60

\* datetime.now() + timedelta(hours=23)
TokenExpiry(t) == t + TokenTTL

GetJquantsToken(tok, exp, t, resp) ==
    IF TokenValid(tok, exp, t)
    THEN [ret |-> tok, token |-> tok, expiry |-> exp, posts |-> 0]
    ELSE IF ~refresh_configured
    THEN [ret |-> None, token |-> tok, expiry |-> exp, posts |-> 0]
    ELSE IF resp = "ok"
    THEN [ret |-> Some(t), token |-> Some(t), expiry |-> Some(TokenExpiry(t)), posts |-> 1]
    ELSE IF resp = "ok_noid"
    THEN [ret |-> None, token |-> None, expiry |-> Some(TokenExpiry(t)), posts |-> 1]
    ELSE [ret |-> None, token |-> tok, expiry |-> exp, posts |-> 1]

(***************************************************************************)
(* Primary provider.                                                       *)
(***************************************************************************)
FastPrice(env) == IF env.fast.kind = "ok" THEN env.fast.price ELSE None
InfoPrice(env) == IF env.info.kind = "ok" THEN env.info.price ELSE None
FastPreviousClose(env) ==
    IF env.fast.kind = "ok" THEN env.fast.previous_close ELSE None
InfoPreviousClose(env) ==
    IF env.info.kind = "ok" THEN env.info.previous_close ELSE None

\* mutant: a rate-limit rejection of fast_info is passed over like any
\* other failure of fast_info
YfBody_RateLimitPassedOver(symbol, env) ==
    LET cleaned == CleanSymbol(symbol)
        price == PyOr(FastPrice(env), InfoPrice(env))
        previous_close == PyOr(FastPreviousClose(env), InfoPreviousClose(env))
    IN  IF env.ticker = "exc" THEN Raised
        ELSE IF price = None THEN Returned(None)
        ELSE Returned(Some(
                 [Record(cleaned, price, "yahoo_finance", FALSE, FALSE)
                     EXCEPT !.change_pct = ChangePct(price, previous_close)]))

\* the try block of _fetch_yfinance_data
YfBody(symbol, env) ==
    LET cleaned == CleanSymbol(symbol)
        price == PyOr(FastPrice(env), InfoPrice(env))
        previous_close == PyOr(FastPreviousClose(env), InfoPreviousClose(env))
    IN  IF env.ticker = "exc" THEN Raised
        ELSE IF env.fast.kind = "ratelimit" THEN Returned(None)
        ELSE IF price = None THEN Returned(None)
        ELSE Returned(Some(
                 [Record(cleaned, price, "yahoo_finance", FALSE, FALSE)
                     EXCEPT !.change_pct = ChangePct(price, previous_close)]))

\* mutant: info is asked for only when fast_info gave no price
YfRequests_InfoOnDemand(env) ==
    IF env.ticker = "exc" THEN <<>>
    ELSE IF env.fast.kind = "ratelimit" THEN <<"fast_info">>
    ELSE IF Truthy(FastPrice(env)) THEN <<"fast_info">>
    ELSE <<"fast_info", "info">>

\* the requests the try block sends, in order
YfRequests(env) ==
    IF env.ticker = "exc" THEN <<>>
    ELSE IF env.fast.kind = "ratelimit" THEN <<"fast_info">>
    ELSE <<"fast_info", "info">>

\* mutant: the outer "except Exception" is missing
FetchYfinanceData_NoExcept(symbol, env) == YfBody(symbol, env)

FetchYfinanceData(symbol, env) ==
    LET r == YfBody(symbol, env)
    IN  IF r.exc THEN Returned(None) ELSE r

\* the try block of _try_yahoo_finance_detailed
YfDetailedBody(symbol, yf_symbol, env) ==
    LET price == PyOr(FastPrice(env), InfoPrice(env))
        has_price == Truthy(price)
        named == env.info.kind = "ok" /\ env.info.named
    IN  IF env.ticker = "exc" THEN Raised
        ELSE IF env.fast.kind = "ratelimit" THEN Returned(None)
        ELSE IF env.info.kind = "ratelimit" THEN Returned(None)
        ELSE IF ~has_price /\ ~named THEN Returned(None)
        ELSE IF env.dividends = "exc" THEN Raised
        ELSE Returned(Some(Record(symbol, price, "unset", FALSE, TRUE)))

YfDetailedRequests(env) ==
    IF env.ticker = "exc" THEN <<>>
    ELSE IF env.fast.kind = "ratelimit" THEN <<"fast_info">>
    ELSE IF env.info.kind = "ratelimit" THEN <<"fast_info", "info">>
    ELSE IF ~Truthy(PyOr(FastPrice(env), InfoPrice(env)))
            /\ ~(env.info.kind = "ok" /\ env.info.named)
    THEN <<"fast_info", "info">>
    ELSE IF env.dividends = "exc" THEN <<"fast_info", "info", "financials", "dividends">>
    ELSE <<"fast_info", "info", "financials", "dividends", "history">>

TryYahooFinanceDetailed(symbol, yf_symbol, env) ==
    LET r == YfDetailedBody(symbol, yf_symbol, env)
    IN  IF r.exc THEN Returned(None) ELSE r

\* mutant: the quotes are asked for without looking at the token
FetchJquantsDailyQuotes_NoTokenCheck(symbol, token, q) ==
    IF q.kind # "ok" THEN None
    ELSE Some([Record(symbol, q.price, "unset", FALSE, FALSE)
                  EXCEPT !.change_pct = ChangePct(q.price, q.previous_close)])

(***************************************************************************)
(* Secondary provider.                                                     *)
(***************************************************************************)
\* _fetch_jquants_daily_quotes after its token call returned token
FetchJquantsDailyQuotes(symbol, token, q) ==
    IF token = None THEN None
    ELSE IF q.kind # "ok" THEN None
    ELSE Some([Record(symbol, q.price, "unset", FALSE, FALSE)
                  EXCEPT !.change_pct = ChangePct(q.price, q.previous_close)])

\* static fallback
GetMockData(symbol) == None

(***************************************************************************)
(* Provider chain: fetch_stock_data and fetch_stock_data_detailed.         *)
(***************************************************************************)
Threads == 1..NThreads

NoCur ==
    [key |-> <<>>, checkedAt |-> 0, prior |-> None, steps |-> <<>>,
     yields |-> <<>>, reqs |-> <<>>, result |-> None]

SymbolLists ==
    UNION {[1..n -> RawSymbols] : n \in 0..MaxProcessed}

\* mutant: a step that succeeded does not end the symbol
AfterStep_NoContinue(step, success) ==
    IF step = "cache" THEN "primary"
    ELSE IF step = "primary" THEN "secondary"
    ELSE IF step = "secondary" THEN "static"
    ELSE "symdone"

\* the order of the steps for one symbol: a step that succeeded ends the
\* symbol ("continue" / "return"), a step that failed falls to the next
AfterStep(step, success) ==
    IF success THEN "symdone"
    ELSE IF step = "cache" THEN "primary"
    ELSE IF step = "primary" THEN "secondary"
    ELSE IF step = "secondary" THEN "static"
    ELSE "symdone"

\* mutant: any record is accepted
Accepted_AnyRecord(data) == data # None

\* a provider result is accepted only with a non-null price
Accepted(data) == data # None /\ The(data).price # None

\* mutant: the detailed entry point does not take records from the cache
CacheHit_BasicOnly(k, cached) == k = "basic" /\ cached # None

\* mutant: the detailed entry point takes only detailed records from the
\* cache
CacheHit_DetailedWantsDetail(k, cached) ==
    IF k = "basic" THEN cached # None
    ELSE Accepted(cached) /\ The(cached).detail

\* the cache check that ends the symbol
CacheHit(k, cached) ==
    IF k = "basic" THEN cached # None ELSE Accepted(cached)

\* mutant: the record of the secondary provider gets its source but not
\* the note that it is delayed
SecondaryAttempt_NoNote(k, symbol, x, q) ==
    LET t1 == GetJquantsToken(jquants_id_token, jquants_token_expiry, now, x)
        jq == FetchJquantsDailyQuotes(symbol, t1.ret, q)
        ok == Accepted(jq)
        t2 == IF ok THEN GetJquantsToken(t1.token, t1.expiry, now, x) ELSE t1
        t3 == IF ok /\ k = "detailed"
              THEN GetJquantsToken(t2.token, t2.expiry, now, x) ELSE t2
        post(t) == IF t.posts = 1 THEN <<"auth_refresh">> ELSE <<>>
        get(t, name) == IF t.ret # None THEN <<name>> ELSE <<>>
    IN  [data |-> IF ok
                  THEN Some([The(jq) EXCEPT !.source = "jquants",
                                            !.detail = (k = "detailed")])
                  ELSE None,
         token |-> t3.token,
         expiry |-> t3.expiry,
         reqs |-> post(t1) \o get(t1, "daily_quotes")
                  \o (IF ok THEN post(t2) \o get(t2, "listed_info") ELSE <<>>)
                  \o (IF ok /\ k = "detailed"
                      THEN post(t3) \o get(t3, "statements") ELSE <<>>)]

\* the secondary attempt of either entry point: the quotes, then the
\* listed info (and, detailed, the statements), each behind a token call
SecondaryAttempt(k, symbol, x, q) ==
    LET t1 == GetJquantsToken(jquants_id_token, jquants_token_expiry, now, x)
        jq == FetchJquantsDailyQuotes(symbol, t1.ret, q)
        ok == Accepted(jq)
        t2 == IF ok THEN GetJquantsToken(t1.token, t1.expiry, now, x) ELSE t1
        t3 == IF ok /\ k = "detailed"
              THEN GetJquantsToken(t2.token, t2.expiry, now, x) ELSE t2
        post(t) == IF t.posts = 1 THEN <<"auth_refresh">> ELSE <<>>
        get(t, name) == IF t.ret # None THEN <<name>> ELSE <<>>
    IN  [data |-> IF ok
                  THEN Some([The(jq) EXCEPT !.source = "jquants", !.note = TRUE,
                                            !.detail = (k = "detailed")])
                  ELSE None,
         token |-> t3.token,
         expiry |-> t3.expiry,
         reqs |-> post(t1) \o get(t1, "daily_quotes")
                  \o (IF ok THEN post(t2) \o get(t2, "listed_info") ELSE <<>>)
                  \o (IF ok /\ k = "detailed"
                      THEN post(t3) \o get(t3, "statements") ELSE <<>>)]

Cleaned == CleanSymbol(symbols[idx])

InitChain ==
    /\ pc = "idle"
    /\ kind = "none"
    /\ symbols = <<>>
    /\ idx = 0
    /\ results = EmptyMap
    /\ ret = None
    /\ raised = FALSE
    /\ cur = NoCur
    /\ outcomes = <<>>
    /\ lastCached = EmptyMap
    /\ nprocessed = 0

InitState ==
    /\ now = 0
    /\ timeNow = MinInterval
    /\ stock_cache = EmptyMap
    /\ cache_expiry = EmptyMap
    /\ jquants_id_token = None
    /\ jquants_token_expiry = None
    /\ refresh_configured \in BOOLEAN
    /\ last_request_time = 0

\* a thread's locals: wake and todo in a primary attempt; in
\* _get_jquants_token the response, the result, the number of exchanges and
\* the token state the call found
NoLocals ==
    [wake |-> 0, todo |-> <<>>, resp |-> "none", ret |-> None, posts |-> 0,
     before |-> [token |-> None, expiry |-> None]]

\* history of a run of threads: when the first _rate_limit_wait began, how
\* many returned, when the last two returned, when the last two requests
\* to the primary provider were sent
NoHist ==
    [firstStart |-> None, nret |-> 0, prevRet |-> None, lastRet |-> None,
     prevReq |-> None, lastReq |-> None]

InitThreads ==
    /\ tpc = [t \in Threads |-> "idle"]
    /\ tloc = [t \in Threads |-> NoLocals]
    /\ hist = NoHist

\* the locals of a directory call that is not running
NoCall ==
    [pc |-> "idle", fn |-> "none", search |-> None, requests |-> 0,
     posts |-> 0, results |-> <<>>, last |-> "none", served |-> "none",
     ret |-> <<>>, before |-> [cache |-> <<>>, expiry |-> None]]

InitDir ==
    /\ listed_cache = <<>>
    /\ listed_cache_expiry = None
    /\ dcall = NoCall

\* DEFAULT_POPULAR_SYMBOLS: canonical codes, here three of them
DefaultPopularSymbols == << <<"7">>, <<"7", "7">>, <<"A">> >>

\* the locals and the response of a ranking call that is not running
NoRank ==
    [pc |-> "idle", scope |-> "none", limit |-> 0, status |-> 0,
     realtime_data |-> EmptyMap, entries |-> <<>>, top_gainers |-> <<>>,
     top_losers |-> <<>>, served |-> "none", requests |-> 0, posts |-> 0,
     before |-> [cache |-> None, expiry |-> None],
     universe |-> <<>>]   \* history: the entries the snapshot was made of

InitRank ==
    /\ popular_symbols = DefaultPopularSymbols
    /\ market_movers_cache = None
    /\ market_movers_expiry = None
    /\ rcall = NoRank

\* no request to a bot endpoint yet: the endpoint, the X-Bot-Key header,
\* the payload, the response, and the posts before the request
NoResponse ==
    [endpoint |-> "none", header |-> None, payload |-> None, status |-> 0,
     post |-> None, before |-> <<>>]

\* a row of table stocks
StockRow(id, symbol, change_pct) ==
    [id |-> id, symbol |-> symbol, change_pct |-> change_pct]

\* the configuration and the rows the tests of the bot endpoints start
\* from: the key, the bot user, and the stock 7203 (here "7")
InitBot ==
    /\ bot_api_key = Some("test-key")
    /\ bot_user_id = Some("1")
    /\ db_users = {1}
    /\ db_stocks = {StockRow(1, "7", Some(15))}
    /\ db_posts = <<>>
    /\ bresp = NoResponse

Init == InitState /\ InitChain /\ InitThreads /\ InitDir /\ InitRank /\ InitBot

CallFetchStockData(syms) ==
    /\ pc = "idle"
    /\ nprocessed + Len(syms) <= MaxProcessed
    /\ nprocessed' = nprocessed + Len(syms)
    /\ pc' = IF syms = <<>> THEN "return" ELSE "cache"
    /\ kind' = "basic"
    /\ symbols' = syms
    /\ idx' = 1
    /\ UNCHANGED <<results, ret, raised, cur, outcomes, lastCached>>
    /\ UNCHANGED <<now, timeNow, cacheVars, tokenVars, restVars,
                   last_request_time, threadVars>>

CallFetchStockDataDetailed(symbol) ==
    /\ pc = "idle"
    /\ nprocessed < MaxProcessed
    /\ nprocessed' = nprocessed + 1
    /\ pc' = "cache"
    /\ kind' = "detailed"
    /\ symbols' = <<symbol>>
    /\ idx' = 1
    /\ UNCHANGED <<results, ret, raised, cur, outcomes, lastCached>>
    /\ UNCHANGED <<now, timeNow, cacheVars, tokenVars, restVars,
                   last_request_time, threadVars>>

\* what a step that ended with record rec (None: it failed) leaves behind
Finish(step, rec, reqs) ==
    /\ pc' = AfterStep(step, rec # None)
    /\ cur' = [cur EXCEPT !.steps = Append(@, step),
                          !.yields = Append(@, rec # None),
                          !.reqs = @ \o reqs, !.result = rec]
    /\ results' = IF rec # None /\ kind = "basic"
                  THEN Put(results, Cleaned, The(rec)) ELSE results
    /\ ret' = IF rec # None /\ kind = "detailed" THEN rec ELSE ret
    /\ outcomes' = IF rec # None THEN Append(outcomes, step)
                   ELSE IF step = "static" THEN Append(outcomes, "exhausted")
                   ELSE outcomes

\* _set_cache, with the history of what was cached and when
Store(rec) ==
    /\ stock_cache' = IF rec # None THEN SetCacheData(Cleaned, The(rec)) ELSE stock_cache
    /\ cache_expiry' = IF rec # None THEN SetCacheExpiry(Cleaned) ELSE cache_expiry
    /\ lastCached' = IF rec # None
                     THEN Put(lastCached, Cleaned, [rec |-> The(rec), at |-> now])
                     ELSE lastCached

StepCache ==
    /\ pc = "cache"
    /\ LET cached == GetCachedData(Cleaned)
           hit == CacheHit(kind, cached)
       IN  /\ pc' = AfterStep("cache", hit)
           /\ cur' = [key |-> Cleaned, checkedAt |-> now,
                      prior |-> IF Cleaned \in DOMAIN lastCached
                                THEN Some(lastCached[Cleaned]) ELSE None,
                      steps |-> <<"cache">>, yields |-> <<hit>>, reqs |-> <<>>,
                      result |-> IF hit THEN cached ELSE None]
           /\ results' = IF hit /\ kind = "basic"
                         THEN Put(results, Cleaned, The(cached)) ELSE results
           /\ ret' = IF hit /\ kind = "detailed" THEN cached ELSE ret
           /\ outcomes' = IF hit THEN Append(outcomes, "cache") ELSE outcomes
    /\ UNCHANGED <<kind, symbols, idx, raised, lastCached, nprocessed>>
    /\ UNCHANGED <<now, timeNow, cacheVars, tokenVars, restVars,
                   last_request_time, threadVars>>

\* the wait of _rate_limit_wait is shorter than this specification's clock
\* step: the stamp is time.time() at that resolution
StepPrimary(env) ==
    /\ pc = "primary"
    /\ last_request_time' = timeNow
    /\ LET r == IF kind = "basic"
                THEN FetchYfinanceData(Cleaned, env)
                ELSE TryYahooFinanceDetailed(Cleaned, NormalizeSymbol(symbols[idx]), env)
           reqs == IF kind = "basic" THEN YfRequests(env) ELSE YfDetailedRequests(env)
           rec == IF r.exc \/ ~Accepted(r.data) THEN None
                  ELSE Some([The(r.data) EXCEPT !.source = "yahoo_finance"])
       IN  IF r.exc
           THEN /\ raised' = TRUE
                /\ pc' = "return"
                /\ cur' = [cur EXCEPT !.steps = Append(@, "primary"),
                                      !.yields = Append(@, FALSE),
                                      !.reqs = @ \o reqs]
                /\ UNCHANGED <<results, ret, outcomes, lastCached, cacheVars>>
           ELSE /\ Finish("primary", rec, reqs)
                /\ Store(rec)
                /\ UNCHANGED raised
    /\ UNCHANGED <<kind, symbols, idx, nprocessed>>
    /\ UNCHANGED <<now, timeNow, tokenVars, restVars, threadVars>>

StepSecondary(x, q) ==
    /\ pc = "secondary"
    /\ LET a == SecondaryAttempt(kind, Cleaned, x, q)
       IN  /\ jquants_id_token' = a.token
           /\ jquants_token_expiry' = a.expiry
           /\ Finish("secondary", a.data, a.reqs)
           /\ Store(a.data)
    /\ UNCHANGED <<kind, symbols, idx, raised, nprocessed>>
    /\ UNCHANGED <<now, timeNow, restVars, last_request_time, threadVars>>

StepStatic ==
    /\ pc = "static"
    /\ LET mock == GetMockData(Cleaned)
           rec == IF mock = None THEN None
                  ELSE Some([The(mock) EXCEPT !.source = "mock"])
       IN  Finish("static", rec, <<>>)
    /\ UNCHANGED <<kind, symbols, idx, raised, lastCached, nprocessed>>
    /\ UNCHANGED <<now, timeNow, cacheVars, tokenVars, restVars,
                   last_request_time, threadVars>>

\* the for loop moves to the next symbol, or the call returns
NextSymbol ==
    /\ pc = "symdone"
    /\ IF idx < Len(symbols)
       THEN /\ idx' = idx + 1
            /\ pc' = "cache"
       ELSE /\ idx' = idx
            /\ pc' = "return"
    /\ cur' = IF idx < Len(symbols) THEN NoCur ELSE cur
    /\ UNCHANGED <<kind, symbols, results, ret, raised, outcomes, lastCached,
                   nprocessed>>
    /\ UNCHANGED <<now, timeNow, cacheVars, tokenVars, restVars,
                   last_request_time, threadVars>>

\* the caller has the result; the call's locals are dropped
Return ==
    /\ pc = "return"
    /\ pc' = "idle"
    /\ kind' = "none"
    /\ symbols' = <<>>
    /\ idx' = 0
    /\ results' = EmptyMap
    /\ ret' = None
    /\ raised' = FALSE
    /\ cur' = NoCur
    /\ outcomes' = <<>>
    /\ UNCHANGED <<lastCached, nprocessed>>
    /\ UNCHANGED <<now, timeNow, cacheVars, tokenVars, restVars,
                   last_request_time, threadVars>>

\* a minute passes between two calls (minutes are counted from the first
\* call: nothing in the module depends on the clock's origin)
Tick ==
    /\ pc = "idle"
    /\ nprocessed > 0
    /\ now < MaxMinutes
    /\ now' = now + 1
    /\ timeNow' = timeNow + TicksPerMinute
    /\ UNCHANGED <<cacheVars, tokenVars, restVars, last_request_time,
                   chainVars, threadVars>>

Next ==
    \/ \E syms \in SymbolLists : CallFetchStockData(syms)
    \/ \E symbol \in RawSymbols : CallFetchStockDataDetailed(symbol)
    \/ StepCache
    \/ \E env \in PrimaryEnvs : StepPrimary(env)
    \/ \E x \in ExchangeResponses, q \in QuoteResponses : StepSecondary(x, q)
    \/ StepStatic
    \/ NextSymbol
    \/ Return
    \/ Tick

Spec == Init /\ [][Next]_vars

(***************************************************************************)
(***************************************************************************)
(* The provider chain on inputs whose cleaned form is not clean: SpecRaw   *)
(* runs the same calls on ArbitrarySymbols, without the clock.             *)
(***************************************************************************)
\* "7 .T" and "..TT", next to the inputs of Spec
ArbitrarySymbols ==
    RawSymbols \cup { <<"7", " ", ".", "T">>, <<".", ".", "T", "T">> }

ArbitraryLists ==
    UNION {[1..n -> ArbitrarySymbols] : n \in 0..MaxProcessed}

NextRaw ==
    \/ \E syms \in ArbitraryLists : CallFetchStockData(syms)
    \/ \E symbol \in ArbitrarySymbols : CallFetchStockDataDetailed(symbol)
    \/ StepCache
    \/ \E env \in PrimaryEnvs : StepPrimary(env)
    \/ \E x \in ExchangeResponses, q \in QuoteResponses : StepSecondary(x, q)
    \/ StepStatic
    \/ NextSymbol
    \/ Return

SpecRaw == Init /\ [][NextRaw]_vars

(***************************************************************************)
(* Listed directory: strings of names and queries are sequences of code    *)
(* points.                                                                 *)
(***************************************************************************)
\* ord() of the characters symbols are written with
Ord(c) ==
    CASE c = " " -> 32
      [] c = "." -> 46
      [] c = "7" -> 55
      [] c = "A" -> 65
      [] c = "T" -> 84
      [] c = "a" -> 97
      [] c = "t" -> 116

OrdSeq(s) == [i \in 1..Len(s) |-> Ord(s[i])]

\* str.lower() on the letters A-Z; str.strip() on the blank and on the
\* full-width blank
LowerCp(c) == IF c \in 65..90 THEN c + 32 ELSE c
LowerStr(s) == [i \in 1..Len(s) |-> LowerCp(s[i])]
IsBlankCp(c) == c \in {32, 12288}

RECURSIVE LStripCp(_)
LStripCp(s) ==
    IF s # <<>> /\ IsBlankCp(s[1]) THEN LStripCp(Tail(s)) ELSE s

RECURSIVE RStripCp(_)
RStripCp(s) ==
    IF s # <<>> /\ IsBlankCp(s[Len(s)])
    THEN RStripCp(SubSeq(s, 1, Len(s) - 1)) ELSE s

StripCp(s) == RStripCp(LStripCp(s))

\* s starts with pat
StartsWith(s, pat) == Len(pat) <= Len(s) /\ SubSeq(s, 1, Len(pat)) = pat

\* s.replace(pat, ""): left to right, non-overlapping, one pass
RECURSIVE RemoveAll(_, _)
RemoveAll(s, pat) ==
    IF s = <<>> THEN <<>>
    ELSE IF StartsWith(s, pat) THEN RemoveAll(SubSeq(s, Len(pat) + 1, Len(s)), pat)
    ELSE <<s[1]>> \o RemoveAll(Tail(s), pat)

\* the company suffixes of _normalize_query, in the order of the source
CompanySuffixes ==
    << <<26666, 24335, 20250, 31038>>,
       <<65288, 26666, 65289>>,
       <<40, 26666, 41>>,
       <<26377, 38480, 20250, 31038>>,
       <<21512, 21516, 20250, 31038>>,
       <<12507, 12540, 12523, 12487, 12451, 12531, 12464, 12473>>,
       <<104, 100>>,
       <<104, 108, 100, 103, 115>>,
       <<99, 111, 46, 44, 108, 116, 100, 46>>,
       <<99, 111, 46, 44, 32, 108, 116, 100, 46>>,
       <<108, 116, 100, 46>>,
       <<105, 110, 99, 46>>,
       <<99, 111, 114, 112, 46>>,
       <<99, 111, 114, 112, 111, 114, 97, 116, 105, 111, 110>>,
       <<104, 111, 108, 100, 105, 110, 103, 115>> >>

\* the loop over the suffixes, from suffix i on
RECURSIVE StripSuffixes(_, _)
StripSuffixes(s, i) ==
    IF i > Len(CompanySuffixes) THEN s
    ELSE StripSuffixes(RemoveAll(s, CompanySuffixes[i]), i + 1)

NormalizeQuery(value) ==
    LET normalized == LowerStr(StripCp(value))
        spaceless == RemoveAll(RemoveAll(normalized, <<32>>), <<12288>>)
    IN  StripSuffixes(spaceless, 1)

ToKatakana(value) ==
    [i \in 1..Len(value) |->
        IF value[i] \in 12353..12438 THEN value[i] + 96 ELSE value[i]]

ToHiragana(value) ==
    [i \in 1..Len(value) |->
        IF value[i] \in 12449..12534 THEN value[i] - 96 ELSE value[i]]

\* "q in s"
Contains(q, s) ==
    \E i \in 0..(Len(s) - Len(q)) : SubSeq(s, i + 1, i + Len(q)) = q

\* mutant: the query is tried as typed only
QueryVariants_NoFolding(query) == {query}

QueryVariants(query) == {query, ToKatakana(query), ToHiragana(query)}

ItemMatches(item, variants) ==
    LET symbol == NormalizeQuery(OrdSeq(item.symbol))
        name == NormalizeQuery(item.name)
        name_en == NormalizeQuery(item.name_en)
    IN  \/ \E q \in variants : Contains(q, symbol)
        \/ \E q \in variants : Contains(q, name)
        \/ \E q \in variants : Contains(q, name_en)

\* what get_listed_stocks(search) returns once the snapshot is in place
ListedMatches(search, snapshot) ==
    IF search = None \/ The(search) = <<>> THEN snapshot
    ELSE LET query == NormalizeQuery(The(search))
         IN  IF query = <<>> THEN snapshot
             ELSE SelectSeq(snapshot,
                            LAMBDA item : ItemMatches(item, QueryVariants(query)))

(***************************************************************************)
(* Listed directory and the paginated fetches of the secondary provider.   *)
(* SpecPages runs the two page loops against a provider that may go on     *)
(* answering with a continuation key; SpecListed runs get_listed_stocks    *)
(* against a provider of at most MaxListedPages pages, with a clock that   *)
(* advances DirTickHours at a time.                                        *)
(***************************************************************************)
\* "Toyota" and its name in katakana and in hiragana
NameToyota == <<84, 111, 121, 111, 116, 97>>
NameToyotaKana == <<12488, 12520, 12479>>
NameToyotaHira == <<12392, 12424, 12383>>

\* raw entries of GET /listed/info: the code and the names may be missing
RawEntry(code, name, name_en) ==
    [code |-> code, name |-> name, name_en |-> name_en, market |-> None]

\* the pages the provider may answer with
ListedPages ==
    { <<>>,
      << RawEntry(Some(<<"7">>), Some(NameToyotaKana), Some(NameToyota)),
         RawEntry(None, Some(NameToyota), None),
         RawEntry(Some(<<"7", ".", "T">>), Some(NameToyotaKana), None) >>,
      << RawEntry(Some(<<" ">>), None, None),
         RawEntry(Some(<<".", "T">>), None, None),
         RawEntry(Some(<<" ", "a">>), None, None) >> }

\* a page answer: 200 with or without a continuation key, another status,
\* or an exception of the request
PageResponses(pages) ==
    {[kind |-> k, items |-> p] : k \in {"more", "last"}, p \in pages}
    \cup {[kind |-> k, items |-> <<>>] : k \in {"non200", "exception"}}

\* Python truth value of an optional string, and "a or b"
TruthyStr(opt) == opt # None /\ The(opt) # <<>>
OrStr(opt, dflt) == IF TruthyStr(opt) THEN The(opt) ELSE dflt

NormalizeListedItem(info) ==
    LET symbol == Strip(OrStr(info.code, <<>>))
        cleaned == CleanSymbol(symbol)
    IN  IF symbol = <<>> THEN None
        ELSE Some([symbol |-> cleaned,
                   name |-> OrStr(info.name, OrdSeq(cleaned)),
                   name_en |-> OrStr(info.name_en, <<>>),
                   market |-> info.market])

\* the loop of get_listed_stocks over the raw entries
RECURSIVE NormalizeListed(_)
NormalizeListed(raw) ==
    IF raw = <<>> THEN <<>>
    ELSE LET item == NormalizeListedItem(Head(raw))
         IN  (IF item = None THEN <<>> ELSE <<The(item)>>)
             \o NormalizeListed(Tail(raw))

\* mutant: the loops run one page longer
PageCap_OneMore(fn) ==
    (IF fn = "listed" THEN LISTED_MAX_PAGES ELSE QUOTES_MAX_PAGES) + 1

\* range(500) and range(200)
PageCap(fn) == IF fn = "listed" THEN LISTED_MAX_PAGES ELSE QUOTES_MAX_PAGES

\* mutant: a snapshot never expires
SnapshotStale_IgnoreExpiry ==
    \/ listed_cache = <<>>
    \/ listed_cache_expiry = None

\* "not _listed_cache or not _listed_cache_expiry or now >= expiry"
SnapshotStale ==
    \/ listed_cache = <<>>
    \/ listed_cache_expiry = None
    \/ now >= The(listed_cache_expiry)

\* the token call that opens a paginated fetch
OpenFetch(fn, search, x) ==
    LET t == GetJquantsToken(jquants_id_token, jquants_token_expiry, now, x)
    IN  /\ jquants_id_token' = t.token
        /\ jquants_token_expiry' = t.expiry
        /\ dcall' = [NoCall EXCEPT
                        !.fn = fn,
                        !.search = search,
                        !.posts = t.posts,
                        !.served = "fetched",
                        !.last = IF t.ret = None THEN "notoken" ELSE "none",
                        !.pc = IF t.ret # None THEN "page"
                               ELSE IF fn = "listed" THEN "install" ELSE "done",
                        !.before = [cache |-> listed_cache,
                                    expiry |-> listed_cache_expiry]]

CallGetListedStocks(search, x) ==
    /\ dcall.pc = "idle"
    /\ IF SnapshotStale
       THEN OpenFetch("listed", search, x)
       ELSE /\ dcall' = [NoCall EXCEPT
                            !.fn = "listed",
                            !.search = search,
                            !.served = "snapshot",
                            !.pc = "done",
                            !.ret = ListedMatches(search, listed_cache),
                            !.before = [cache |-> listed_cache,
                                        expiry |-> listed_cache_expiry]]
            /\ UNCHANGED tokenVars
    /\ UNCHANGED <<now, timeNow, cacheVars, refresh_configured,
                   last_request_time, chainVars, threadVars, listed_cache,
                   listed_cache_expiry, appVars>>

CallFetchDailyQuotesAll(x) ==
    /\ dcall.pc = "idle"
    /\ OpenFetch("quotes", None, x)
    /\ UNCHANGED <<now, timeNow, cacheVars, refresh_configured,
                   last_request_time, chainVars, threadVars, listed_cache,
                   listed_cache_expiry, appVars>>

\* mutant: a page request that fails discards the pages fetched before it
PageRequest_FailureDiscards(resp) ==
    /\ dcall.pc = "page"
    /\ dcall.requests < PageCap(dcall.fn)
    /\ LET n == dcall.requests + 1
           ok == resp.kind \in {"more", "last"}
           acc == IF ok THEN dcall.results \o resp.items ELSE <<>>
           goon == resp.kind = "more" /\ n < PageCap(dcall.fn)
       IN  dcall' = [dcall EXCEPT
                        !.requests = n,
                        !.results = acc,
                        !.last = resp.kind,
                        !.pc = IF goon THEN "page"
                               ELSE IF dcall.fn = "listed" THEN "install"
                               ELSE "done",
                        !.ret = IF ~goon /\ dcall.fn = "quotes" THEN acc ELSE @]
    /\ UNCHANGED <<now, timeNow, cacheVars, tokenVars, refresh_configured,
                   last_request_time, chainVars, threadVars, listed_cache,
                   listed_cache_expiry, appVars>>

\* one turn of the page loop: the request, and what its answer leads to
PageRequest(resp) ==
    /\ dcall.pc = "page"
    /\ dcall.requests < PageCap(dcall.fn)
    /\ LET n == dcall.requests + 1
           ok == resp.kind \in {"more", "last"}
           acc == IF ok THEN dcall.results \o resp.items ELSE dcall.results
           goon == resp.kind = "more" /\ n < PageCap(dcall.fn)
       IN  dcall' = [dcall EXCEPT
                        !.requests = n,
                        !.results = acc,
                        !.last = resp.kind,
                        !.pc = IF goon THEN "page"
                               ELSE IF dcall.fn = "listed" THEN "install"
                               ELSE "done",
                        !.ret = IF ~goon /\ dcall.fn = "quotes" THEN acc ELSE @]
    /\ UNCHANGED <<now, timeNow, cacheVars, tokenVars, refresh_configured,
                   last_request_time, chainVars, threadVars, listed_cache,
                   listed_cache_expiry, appVars>>

\* mutant: a refresh that fetched nothing leaves the old snapshot in place
InstallSnapshot_KeepOnFailure ==
    /\ dcall.pc = "install"
    /\ listed_cache' = IF dcall.results = <<>> THEN listed_cache
                       ELSE NormalizeListed(dcall.results)
    /\ listed_cache_expiry' = Some(now + ListedTTL)
    /\ dcall' = [dcall EXCEPT
                    !.pc = "done",
                    !.ret = ListedMatches(dcall.search, listed_cache')]
    /\ UNCHANGED <<now, timeNow, cacheVars, tokenVars, refresh_configured,
                   last_request_time, chainVars, threadVars, appVars>>

\* the snapshot and its expiry are replaced, and the call answers
InstallSnapshot ==
    /\ dcall.pc = "install"
    /\ listed_cache' = NormalizeListed(dcall.results)
    /\ listed_cache_expiry' = Some(now + ListedTTL)
    /\ dcall' = [dcall EXCEPT
                    !.pc = "done",
                    !.ret = ListedMatches(dcall.search,
                                          NormalizeListed(dcall.results))]
    /\ UNCHANGED <<now, timeNow, cacheVars, tokenVars, refresh_configured,
                   last_request_time, chainVars, threadVars, appVars>>

\* the caller has the result; the call's locals are dropped
DirReturn ==
    /\ dcall.pc = "done"
    /\ dcall' = NoCall
    /\ UNCHANGED <<now, timeNow, cacheVars, tokenVars, refresh_configured,
                   last_request_time, chainVars, threadVars, listed_cache,
                   listed_cache_expiry, appVars>>

\* DirTickHours hours pass between two calls
TickDir ==
    /\ dcall.pc = "idle"
    /\ now < MaxDirTicks * DirTickHours * 60
    /\ now' = now + DirTickHours * 60
    /\ timeNow' = timeNow + DirTickHours * 60 * TicksPerMinute
    /\ UNCHANGED <<cacheVars, tokenVars, restVars, last_request_time,
                   chainVars, threadVars>>

\* the queries of SpecListed
ListedSearches == {None, Some(NameToyota), Some(NameToyotaHira)}

NextPages ==
    \/ \E x \in ExchangeResponses : CallGetListedStocks(None, x)
    \/ \E x \in ExchangeResponses : CallFetchDailyQuotesAll(x)
    \/ \E resp \in PageResponses({<<>>}) : PageRequest(resp)
    \/ InstallSnapshot
    \/ DirReturn

SpecPages == Init /\ [][NextPages]_vars

\* a page request answered by a provider of at most MaxListedPages pages
ListedPageRequest(resp) ==
    /\ resp.kind = "more" => dcall.requests + 1 < MaxListedPages
    /\ PageRequest(resp)

NextListed ==
    \/ \E search \in ListedSearches, x \in ExchangeResponses :
           CallGetListedStocks(search, x)
    \/ \E resp \in PageResponses(ListedPages) : ListedPageRequest(resp)
    \/ InstallSnapshot
    \/ DirReturn
    \/ TickDir

SpecListed == Init /\ [][NextListed]_vars

(***************************************************************************)
(* Rate limiter and the requests of a primary attempt, thread by thread.   *)
(* A thread runs _rate_limit_wait statement by statement and then sends    *)
(* the requests of _fetch_yfinance_data or _try_yahoo_finance_detailed.    *)
(***************************************************************************)
\* mutant: the wait is skipped
SleepNeeded_Never(elapsed) == FALSE

\* "if elapsed < _MIN_REQUEST_INTERVAL"
SleepNeeded(elapsed) == elapsed < MinInterval

\* time.sleep(_MIN_REQUEST_INTERVAL - elapsed) returns no earlier than this
WakeTime(t, elapsed) == t + (MinInterval - elapsed)

\* the requests one primary attempt sends after its wait
AttemptRequests == {YfRequests(env) : env \in PrimaryEnvs}
                   \cup {YfDetailedRequests(env) : env \in PrimaryEnvs}

\* elapsed = time.time() - _last_request_time, and the decision to sleep
RlRead(t) ==
    /\ tpc[t] = "idle"
    /\ LET elapsed == timeNow - last_request_time
       IN  /\ tpc' = [tpc EXCEPT ![t] = IF SleepNeeded(elapsed) THEN "sleep" ELSE "stamp"]
           /\ tloc' = [tloc EXCEPT ![t].wake = IF SleepNeeded(elapsed)
                                               THEN WakeTime(timeNow, elapsed)
                                               ELSE timeNow]
    /\ hist' = [hist EXCEPT !.firstStart = IF @ = None THEN Some(timeNow) ELSE @]
    /\ UNCHANGED <<now, timeNow, cacheVars, tokenVars, restVars,
                   last_request_time, chainVars>>

\* time.sleep returns
RlSleep(t) ==
    /\ tpc[t] = "sleep"
    /\ timeNow >= tloc[t].wake
    /\ tpc' = [tpc EXCEPT ![t] = "stamp"]
    /\ UNCHANGED <<now, timeNow, cacheVars, tokenVars, restVars,
                   last_request_time, chainVars, tloc, hist>>

\* _last_request_time = time.time(), and the call returns
RlStamp(t, todo) ==
    /\ tpc[t] = "stamp"
    /\ last_request_time' = timeNow
    /\ hist' = [hist EXCEPT !.nret = @ + 1, !.prevRet = hist.lastRet,
                            !.lastRet = Some(timeNow)]
    /\ tloc' = [tloc EXCEPT ![t].todo = todo]
    /\ tpc' = [tpc EXCEPT ![t] = IF todo = <<>> THEN "idle" ELSE "requests"]
    /\ UNCHANGED <<now, timeNow, cacheVars, tokenVars, restVars,
                   chainVars>>

\* the next request of the attempt goes out
SendRequest(t) ==
    /\ tpc[t] = "requests"
    /\ hist' = [hist EXCEPT !.prevReq = hist.lastReq, !.lastReq = Some(timeNow)]
    /\ tloc' = [tloc EXCEPT ![t].todo = Tail(@)]
    /\ tpc' = [tpc EXCEPT ![t] = IF Len(tloc[t].todo) = 1 THEN "idle" ELSE "requests"]
    /\ UNCHANGED <<now, timeNow, cacheVars, tokenVars, restVars,
                   last_request_time, chainVars>>

\* 1/TicksPerSecond of a second passes
TickRate ==
    /\ timeNow < MinInterval + MaxTicks
    /\ timeNow' = timeNow + 1
    /\ UNCHANGED <<now, cacheVars, tokenVars, restVars,
                   last_request_time, chainVars, threadVars>>

RateStep(t) ==
    \/ RlRead(t)
    \/ RlSleep(t)
    \/ \E todo \in AttemptRequests : RlStamp(t, todo)
    \/ SendRequest(t)

NextRate ==
    \/ \E t \in Threads : RateStep(t)
    \/ TickRate

NextRateSingle ==
    \/ RateStep(1)
    \/ TickRate

SpecRate == Init /\ [][NextRate]_vars
SpecRateSingle == Init /\ [][NextRateSingle]_vars

(***************************************************************************)
(* Token manager.  SpecToken: threads run _get_jquants_token statement by  *)
(* statement.  SpecTokenSingle: one caller, whole calls, with a clock that *)
(* advances by hours between the calls.                                    *)
(***************************************************************************)
\* the check of a valid cached token, and of the refresh secret
TkCheck(t) ==
    /\ tpc[t] = "idle"
    /\ tloc' = [tloc EXCEPT ![t].before =
                    [token |-> jquants_id_token, expiry |-> jquants_token_expiry]]
    /\ tpc' = [tpc EXCEPT ![t] =
                    IF TokenValid(jquants_id_token, jquants_token_expiry, now)
                    THEN "ret_cached"
                    ELSE IF ~refresh_configured THEN "done"
                    ELSE "post"]
    /\ UNCHANGED <<now, timeNow, cacheVars, tokenVars, restVars,
                   last_request_time, chainVars, hist>>

\* "return _jquants_id_token" of the valid branch
TkReturnCached(t) ==
    /\ tpc[t] = "ret_cached"
    /\ tloc' = [tloc EXCEPT ![t].ret = jquants_id_token]
    /\ tpc' = [tpc EXCEPT ![t] = "done"]
    /\ UNCHANGED <<now, timeNow, cacheVars, tokenVars, restVars,
                   last_request_time, chainVars, hist>>

\* requests.post(.../token/auth_refresh) and its answer
TkPost(t, resp) ==
    /\ tpc[t] = "post"
    /\ tloc' = [tloc EXCEPT ![t].resp = resp, ![t].posts = @ + 1]
    /\ tpc' = [tpc EXCEPT ![t] =
                    IF resp \in {"ok", "ok_noid"} THEN "store_token" ELSE "done"]
    /\ UNCHANGED <<now, timeNow, cacheVars, tokenVars, restVars,
                   last_request_time, chainVars, hist>>

\* _jquants_id_token = data.get("idToken")
TkStoreToken(t) ==
    /\ tpc[t] = "store_token"
    /\ jquants_id_token' = IF tloc[t].resp = "ok" THEN Some(now) ELSE None
    /\ tpc' = [tpc EXCEPT ![t] = "store_expiry"]
    /\ UNCHANGED <<now, timeNow, cacheVars, jquants_token_expiry,
                   restVars, last_request_time, chainVars, tloc, hist>>

\* _jquants_token_expiry = datetime.now() + timedelta(hours=23)
TkStoreExpiry(t) ==
    /\ tpc[t] = "store_expiry"
    /\ jquants_token_expiry' = Some(TokenExpiry(now))
    /\ tpc' = [tpc EXCEPT ![t] = "ret_new"]
    /\ UNCHANGED <<now, timeNow, cacheVars, jquants_id_token,
                   restVars, last_request_time, chainVars, tloc, hist>>

\* "return _jquants_id_token" after the exchange
TkReturnNew(t) ==
    /\ tpc[t] = "ret_new"
    /\ tloc' = [tloc EXCEPT ![t].ret = jquants_id_token]
    /\ tpc' = [tpc EXCEPT ![t] = "done"]
    /\ UNCHANGED <<now, timeNow, cacheVars, tokenVars, restVars,
                   last_request_time, chainVars, hist>>

\* the caller has the result; the call's locals are dropped
TkDone(t) ==
    /\ tpc[t] = "done"
    /\ tloc' = [tloc EXCEPT ![t] = NoLocals]
    /\ tpc' = [tpc EXCEPT ![t] = "idle"]
    /\ UNCHANGED <<now, timeNow, cacheVars, tokenVars, restVars,
                   last_request_time, chainVars, hist>>

TokenStep(t) ==
    \/ TkCheck(t)
    \/ TkReturnCached(t)
    \/ \E resp \in ExchangeResponses : TkPost(t, resp)
    \/ TkStoreToken(t)
    \/ TkStoreExpiry(t)
    \/ TkReturnNew(t)
    \/ TkDone(t)

NextToken == \E t \in Threads : TokenStep(t)

SpecToken == Init /\ [][NextToken]_vars

\* one whole call of _get_jquants_token by the single caller
CallGetJquantsToken(resp) ==
    /\ tpc[1] = "idle"
    /\ LET r == GetJquantsToken(jquants_id_token, jquants_token_expiry, now, resp)
       IN  /\ jquants_id_token' = r.token
           /\ jquants_token_expiry' = r.expiry
           /\ tloc' = [tloc EXCEPT ![1] =
                           [NoLocals EXCEPT
                               !.resp = IF r.posts = 1 THEN resp ELSE "none",
                               !.ret = r.ret,
                               !.posts = r.posts,
                               !.before = [token |-> jquants_id_token,
                                           expiry |-> jquants_token_expiry]]]
    /\ tpc' = [tpc EXCEPT ![1] = "done"]
    /\ UNCHANGED <<now, timeNow, cacheVars, restVars,
                   last_request_time, chainVars, hist>>

\* an hour passes between two calls
TickHour ==
    /\ tpc[1] = "idle"
    /\ now < MaxHours * 60
    /\ now' = now + 60
    /\ timeNow' = timeNow + 60 * TicksPerMinute
    /\ UNCHANGED <<cacheVars, tokenVars, restVars, last_request_time,
                   chainVars, threadVars>>

NextTokenSingle ==
    \/ \E resp \in ExchangeResponses : CallGetJquantsToken(resp)
    \/ TkDone(1)
    \/ TickHour

SpecTokenSingle == Init /\ [][NextTokenSingle]_vars

(***************************************************************************)
(* Claims checked under Spec.                                              *)
(***************************************************************************)
ChainOrder == <<"cache", "primary", "secondary", "static">>
IsPrefix(a, b) == Len(a) <= Len(b) /\ SubSeq(b, 1, Len(a)) = a

\* the symbol being processed was cached less than CACHE_DURATION before
\* its cache check
FreshPrior ==
    /\ cur.steps # <<>>
    /\ cur.prior # None
    /\ cur.checkedAt < The(cur.prior).at + CACHE_DURATION

\* C1: a symbol of fetch_stock_data whose record was obtained and cached
\* less than 5 minutes before the call checks the cache is answered with
\* that same record, by the cache step alone and without any request to
\* the primary or the secondary provider.
C1_CacheHitWithinTTL ==
    (kind = "basic" /\ FreshPrior) =>
        /\ cur.steps = <<"cache">>
        /\ cur.reqs = <<>>
        /\ cur.result = Some(The(cur.prior).rec)
        /\ pc \in {"symdone", "return"}
        /\ cur.key \in DOMAIN results
        /\ results[cur.key] = The(cur.prior).rec

C1_Witness ==
    /\ kind = "basic"
    /\ pc = "return"
    /\ FreshPrior
    /\ cur.checkedAt = The(cur.prior).at + CACHE_DURATION - 1
    /\ results[cur.key] = The(cur.prior).rec

\* C2: in both entry points the steps of a symbol are taken in the order
\* cache, primary, secondary, static; every step before the last one taken
\* yielded no record with a non-null price, and the processing of the
\* symbol ends exactly when a step yields one or the four steps are spent.
C2_StrictFallbackOrder ==
    (kind # "none" /\ cur.steps # <<>> /\ ~raised) =>
        /\ IsPrefix(cur.steps, ChainOrder)
        /\ Len(cur.yields) = Len(cur.steps)
        /\ \A i \in 1..(Len(cur.steps) - 1) : ~cur.yields[i]
        /\ pc \in {"primary", "secondary", "static"} =>
               /\ ~cur.yields[Len(cur.steps)]
               /\ Len(cur.steps) < Len(ChainOrder)
               /\ pc = ChainOrder[Len(cur.steps) + 1]
        /\ pc = "symdone" =>
               /\ cur.yields[Len(cur.steps)] \/ cur.steps = ChainOrder
               /\ cur.yields[Len(cur.steps)] = Accepted(cur.result)

C2_Witness ==
    /\ kind = "detailed"
    /\ pc = "symdone"
    /\ cur.steps = <<"cache", "primary", "secondary">>
    /\ Accepted(cur.result)
    /\ ret = cur.result

\* the keys of the symbols of the call that did not exhaust the four steps
SucceededKeys ==
    {CleanSymbol(symbols[i]) :
        i \in {j \in 1..Len(symbols) : outcomes[j] # "exhausted"}}

\* C3: fetch_stock_data returns without raising whatever the providers
\* answer; its mapping has at most as many entries as symbols were given,
\* holds every symbol one of whose steps succeeded and no symbol that
\* exhausted the steps.
C3_NeverRaisesPartialResult ==
    (kind = "basic" /\ pc = "return") =>
        /\ ~raised
        /\ Len(outcomes) = Len(symbols)
        /\ Cardinality(DOMAIN results) <= Len(symbols)
        /\ DOMAIN results = SucceededKeys

C3_Witness ==
    /\ kind = "basic"
    /\ pc = "return"
    /\ Len(symbols) = 2
    /\ outcomes = <<"exhausted", "primary">>
    /\ DOMAIN results = {CleanSymbol(symbols[2])}
    /\ CleanSymbol(symbols[1]) # CleanSymbol(symbols[2])

(***************************************************************************)
(* Claims checked under SpecRateSingle and SpecRate.                       *)
(***************************************************************************)
\* C5: with one caller, every _rate_limit_wait call returns at least
\* MIN_REQUEST_INTERVAL after the previous one returned, so N calls take at
\* least (N-1) x MIN_REQUEST_INTERVAL from the start of the first to the
\* return of the last; a call only sleeps, for at most the interval, and
\* then returns.
C5_SingleCallerSpacing ==
    /\ hist.prevRet # None =>
           The(hist.lastRet) - The(hist.prevRet) >= MinInterval
    /\ hist.nret >= 1 =>
           The(hist.lastRet) - The(hist.firstStart) >= (hist.nret - 1) * MinInterval
    /\ tpc[1] \in {"idle", "sleep", "stamp", "requests"}
    /\ tpc[1] = "sleep" => tloc[1].wake = last_request_time + MinInterval

C5_Witness ==
    /\ hist.nret = 3
    /\ The(hist.lastRet) - The(hist.prevRet) = MinInterval
    /\ The(hist.lastRet) - The(hist.firstStart) = 2 * MinInterval

\* C6: under every interleaving of concurrent callers, two returns of
\* _rate_limit_wait are at least MIN_REQUEST_INTERVAL apart.
C6_ConcurrentSpacing ==
    hist.nret >= 2 => The(hist.lastRet) - The(hist.prevRet) >= MinInterval

\* C7: two requests to the primary provider are at least
\* MIN_REQUEST_INTERVAL apart.
C7_RequestSpacing ==
    hist.prevReq # None => The(hist.lastReq) - The(hist.prevReq) >= MinInterval

(***************************************************************************)
(* Claims checked under SpecToken and SpecTokenSingle.                     *)
(***************************************************************************)
\* the threads inside a call that have exchanged the secret for a token
Exchanged == {t \in Threads : tpc[t] # "idle" /\ tloc[t].posts = 1 /\ tloc[t].resp = "ok"}

\* C8: of the callers that overlap while no valid token is cached, at most
\* one performs the exchange.
C8_SingleFlight == Cardinality(Exchanged) <= 1

\* the state Valid of the token, at the time of the call
ValidBefore(l) ==
    /\ l.before.token # None
    /\ l.before.expiry # None
    /\ now < The(l.before.expiry)

\* the call left the stored token and expiry as it found them
TokenStateKept(l) ==
    /\ jquants_id_token = l.before.token
    /\ jquants_token_expiry = l.before.expiry

\* C9: a token returned by _get_jquants_token was issued by an exchange
\* less than 23 hours before the return; a call that finds a token issued
\* 23 hours ago or earlier performs a new exchange.
C9_SafetyMargin ==
    tpc[1] = "done" =>
        /\ tloc[1].ret # None => now - The(tloc[1].ret) < TOKEN_VALID_HOURS * 60
        /\ (tloc[1].before.token # None
              /\ now - The(tloc[1].before.token) >= TOKEN_VALID_HOURS * 60)
           => tloc[1].posts = 1

C9_Witness ==
    /\ tpc[1] = "done"
    /\ tloc[1].posts = 0
    /\ tloc[1].ret # None
    /\ now - The(tloc[1].ret) = (TOKEN_VALID_HOURS - 1) * 60

\* C10 as stated: a call that does not find a valid token performs exactly
\* one exchange attempt.
C10_ExchangeWheneverNotValid ==
    (tpc[1] = "done" /\ ~ValidBefore(tloc[1])) => tloc[1].posts = 1

\* C10, amended: a call that finds a valid token returns it without an
\* exchange; a call that does not performs exactly one exchange attempt if
\* the refresh secret is configured, and none, returning nothing, if it is
\* not; a failed exchange returns nothing, keeps the stored token and
\* expiry, and leaves the state not valid, so that the next call attempts
\* the exchange again.
C10_TokenStateMachine ==
    tpc[1] = "done" =>
        LET l == tloc[1]
        IN  /\ ValidBefore(l) =>
                /\ l.ret = l.before.token
                /\ l.posts = 0
                /\ TokenStateKept(l)
            /\ (~ValidBefore(l) /\ refresh_configured) => l.posts = 1
            /\ (~ValidBefore(l) /\ ~refresh_configured) =>
                /\ l.posts = 0
                /\ l.ret = None
                /\ TokenStateKept(l)
            /\ (l.posts = 1 /\ l.resp \in {"non200", "exception"}) =>
                /\ l.ret = None
                /\ TokenStateKept(l)
                /\ ~TokenValid(jquants_id_token, jquants_token_expiry, now)

C10_Witness ==
    /\ tpc[1] = "done"
    /\ tloc[1].before.token # None
    /\ ~ValidBefore(tloc[1])
    /\ tloc[1].posts = 1
    /\ tloc[1].resp = "non200"
    /\ tloc[1].ret = None
    /\ TokenStateKept(tloc[1])

(***************************************************************************)
(* Claims about the quote cache, checked under Spec.                       *)
(***************************************************************************)
\* an entry for key k is present and has not expired at minute t
LiveEntry(k, t) ==
    /\ k \in DOMAIN stock_cache
    /\ k \in DOMAIN cache_expiry
    /\ t < cache_expiry[k]

\* the cache step of the symbol in hand has just been taken
JustRead == pc \in {"primary", "symdone"} /\ cur.steps = <<"cache">>

\* what _get_cached_data answers for every raw symbol, and what the cache
\* step of the running call saw
ReadAnswers ==
    /\ \A s \in RawSymbols :
           GetCachedData(s) = IF LiveEntry(CleanSymbol(s), now)
                              THEN Some(stock_cache[CleanSymbol(s)])
                              ELSE None
    /\ JustRead =>
           /\ cur.yields[1] <=> LiveEntry(cur.key, cur.checkedAt)
           /\ cur.result = IF LiveEntry(cur.key, cur.checkedAt)
                           THEN Some(stock_cache[cur.key])
                           ELSE None

\* C11: _get_cached_data(symbol) returns the record of the canonical symbol
\* if and only if that entry is present and now < its expiry, signals a
\* miss otherwise, and the read leaves the cache as it was.
C11_CacheRead ==
    /\ []ReadAnswers
    /\ [][StepCache => UNCHANGED cacheVars]_vars

C11_Witness ==
    /\ JustRead
    /\ cur.key \in DOMAIN stock_cache
    /\ now >= cache_expiry[cur.key]
    /\ cur.yields = <<FALSE>>
    /\ cur.result = None

\* a step in which the call in hand accepts a provider record
StoreStep == pc \in {"primary", "secondary"} /\ pc' = "symdone"

\* map m with the entry of key k set to v and every other entry as it was
Overwritten(m, k, v) ==
    [j \in DOMAIN m \cup {k} |-> IF j = k THEN v ELSE m[j]]

\* C12: _set_cache replaces the entry of the canonical symbol by the whole
\* new record and stamps its expiry now + 5 minutes, whether or not an
\* entry existed, and leaves every other entry as it was; no other step
\* changes, removes or sweeps an entry.
C12_CacheWrite ==
    [][ /\ StoreStep =>
             /\ stock_cache' = Overwritten(stock_cache, Cleaned, The(cur'.result))
             /\ cache_expiry' = Overwritten(cache_expiry, Cleaned, now + CACHE_DURATION)
        /\ ~StoreStep => UNCHANGED cacheVars ]_vars

C12_Witness ==
    /\ pc = "symdone"
    /\ cur.prior # None
    /\ cur.yields = <<FALSE, FALSE, TRUE>>
    /\ The(cur.prior).rec # The(cur.result)
    /\ stock_cache[cur.key] = The(cur.result)
    /\ cache_expiry[cur.key] = now + CACHE_DURATION

(***************************************************************************)
(* Claims about keys, checked under SpecRaw.                               *)
(***************************************************************************)
\* trimmed, uppercased, and without the provider suffix
IsCanonical(k) == Strip(k) = k /\ UpperSeq(k) = k /\ ReplaceDotT(k) = k

\* C13: whatever raw inputs the calls were given, every key of the quote
\* cache and every key of the mapping fetch_stock_data returns is a
\* canonical symbol.
C13_CanonicalKeys ==
    \A k \in DOMAIN stock_cache \cup DOMAIN results : IsCanonical(k)

(***************************************************************************)
(* Claims about accepted records, checked under Spec.                      *)
(***************************************************************************)
\* C14: every record in the quote cache, in the mapping of
\* fetch_stock_data and returned by fetch_stock_data_detailed has a
\* non-null price; a step whose provider gave no price caches nothing and
\* falls to the next step.
C14_NonNullPrice ==
    /\ \A k \in DOMAIN stock_cache : stock_cache[k].price # None
    /\ \A k \in DOMAIN results : results[k].price # None
    /\ ret # None => The(ret).price # None
    /\ cur.result # None => The(cur.result).price # None
    /\ \A i \in 1..Len(cur.steps) :
           (cur.steps[i] \in {"primary", "secondary"} /\ ~cur.yields[i]) =>
               Len(cur.steps) > i \/ pc = AfterStep(cur.steps[i], FALSE) \/ raised
    /\ (cur.steps # <<>> /\ cur.result = None /\ cur.prior = None) =>
           CleanSymbol(cur.key) \notin DOMAIN stock_cache

\* the detailed primary attempt built a record (it went as far as the
\* price history) that has a name but no price
C14_Witness ==
    /\ kind = "detailed"
    /\ pc = "secondary"
    /\ cur.steps = <<"cache", "primary">>
    /\ cur.yields = <<FALSE, FALSE>>
    /\ cur.reqs = <<"fast_info", "info", "financials", "dividends", "history">>
    /\ CleanSymbol(cur.key) \notin DOMAIN stock_cache

\* the two provenance taggings
PrimaryTag(rec) == rec.source = "yahoo_finance" /\ ~rec.note
SecondaryTag(rec) == rec.source = "jquants" /\ rec.note

\* the step that ended the symbol in hand, if one did
EndedBy(step) ==
    /\ pc \in {"symdone", "return"}
    /\ cur.steps # <<>>
    /\ cur.steps[Len(cur.steps)] = step
    /\ cur.yields[Len(cur.yields)]

\* C15: in both entry points a record of the secondary provider has source
\* "jquants" and the note that it is delayed, a record of the primary
\* provider has source "yahoo_finance" and no note; the cache holds only
\* records tagged in one of the two ways and serves them as they were
\* stored.
C15_Provenance ==
    /\ EndedBy("primary") => PrimaryTag(The(cur.result))
    /\ EndedBy("secondary") => SecondaryTag(The(cur.result))
    /\ EndedBy("cache") =>
           /\ cur.result = Some(The(cur.prior).rec)
           /\ PrimaryTag(The(cur.result)) \/ SecondaryTag(The(cur.result))
    /\ \A k \in DOMAIN stock_cache :
           PrimaryTag(stock_cache[k]) \/ SecondaryTag(stock_cache[k])
    /\ \A k \in DOMAIN results :
           PrimaryTag(results[k]) \/ SecondaryTag(results[k])
    /\ ret # None => PrimaryTag(The(ret)) \/ SecondaryTag(The(ret))

\* a record of the secondary provider, cached by fetch_stock_data, is
\* served from the cache by fetch_stock_data_detailed
C15_Witness ==
    /\ kind = "detailed"
    /\ EndedBy("cache")
    /\ SecondaryTag(The(ret))
    /\ ~The(ret).detail

\* C16: a call of fetch_stock_data_detailed(s) made while the entry that an
\* earlier successful call stored for s is within its 5 minutes returns the
\* record that call returned, from the cache step alone and without any
\* provider request.
C16_DetailedIdempotent ==
    (kind = "detailed" /\ FreshPrior) =>
        /\ pc \in {"symdone", "return"}
        /\ cur.steps = <<"cache">>
        /\ cur.yields = <<TRUE>>
        /\ cur.reqs = <<>>
        /\ ret = Some(The(cur.prior).rec)

\* the second of two detailed calls, 4 minutes after the first
C16_Witness ==
    /\ kind = "detailed"
    /\ pc = "return"
    /\ FreshPrior
    /\ The(cur.prior).rec.detail
    /\ cur.checkedAt = The(cur.prior).at + CACHE_DURATION - 1
    /\ ret = Some(The(cur.prior).rec)
    /\ cur.reqs = <<>>

(***************************************************************************)
(* Claims about the paginated fetches, checked under SpecPages.            *)
(***************************************************************************)
\* C17: _fetch_jquants_listed_all sends at most 500 page requests and
\* _fetch_jquants_daily_quotes_all at most 200, even if every page carries
\* a continuation key; the loop goes on only after a page with a
\* continuation key and ends at the first page without one, the first
\* non-200 answer, the first exception, or the last permitted page; without
\* a token no page is requested.
C17_BoundedPagination ==
    /\ dcall.fn = "listed" => dcall.requests <= LISTED_MAX_PAGES
    /\ dcall.fn = "quotes" => dcall.requests <= QUOTES_MAX_PAGES
    /\ dcall.pc = "page" =>
           /\ dcall.last \in {"none", "more"}
           /\ dcall.last = "none" <=> dcall.requests = 0
           /\ dcall.fn = "listed" => dcall.requests < LISTED_MAX_PAGES
           /\ dcall.fn = "quotes" => dcall.requests < QUOTES_MAX_PAGES
    /\ (dcall.pc \in {"install", "done"} /\ dcall.served = "fetched") =>
           \/ dcall.last = "notoken" /\ dcall.requests = 0
           \/ dcall.last \in {"last", "non200", "exception"} /\ dcall.requests >= 1
           \/ /\ dcall.last = "more"
              /\ dcall.requests = IF dcall.fn = "listed" THEN LISTED_MAX_PAGES
                                  ELSE QUOTES_MAX_PAGES

\* every one of the 500 pages of the listing carried a continuation key
C17_Witness ==
    /\ dcall.fn = "listed"
    /\ dcall.pc = "install"
    /\ dcall.last = "more"
    /\ dcall.requests = LISTED_MAX_PAGES

(***************************************************************************)
(* Claims about the listed directory, checked under SpecListed.            *)
(***************************************************************************)
\* a call of get_listed_stocks has the result in hand
ListedDone == dcall.fn = "listed" /\ dcall.pc = "done"

\* the call found a non-empty snapshot
FoundSnapshot == dcall.before.cache # <<>> /\ dcall.before.expiry # None

\* C18: a call of get_listed_stocks that finds a non-empty snapshot loaded
\* less than 24 hours ago answers from it, sends no request and leaves
\* snapshot and expiry as they were; a call that finds it 24 hours old or
\* older runs the paginated fetch and replaces the snapshot by exactly the
\* normalized entries of that fetch, stamped to expire 24 hours later.
C18_ListedTTL ==
    (ListedDone /\ FoundSnapshot) =>
        IF now < The(dcall.before.expiry)
        THEN /\ dcall.served = "snapshot"
             /\ dcall.requests = 0
             /\ dcall.posts = 0
             /\ listed_cache = dcall.before.cache
             /\ listed_cache_expiry = dcall.before.expiry
             /\ dcall.ret = ListedMatches(dcall.search, dcall.before.cache)
        ELSE /\ dcall.served = "fetched"
             /\ dcall.last # "none"
             /\ listed_cache = NormalizeListed(dcall.results)
             /\ listed_cache_expiry = Some(now + LISTED_CACHE_DURATION * 60)
             /\ dcall.ret = ListedMatches(dcall.search, listed_cache)

\* a call at the very minute the snapshot expires fetched a different one
C18_Witness ==
    /\ ListedDone
    /\ FoundSnapshot
    /\ now = The(dcall.before.expiry)
    /\ dcall.served = "fetched"
    /\ dcall.requests = MaxListedPages
    /\ listed_cache # <<>>
    /\ listed_cache # dcall.before.cache

\* C19: every entry of the directory snapshot has a non-empty canonical
\* symbol.
C19_SnapshotSymbols ==
    \A i \in 1..Len(listed_cache) :
        /\ listed_cache[i].symbol # <<>>
        /\ IsCanonical(listed_cache[i].symbol)

\* "Inc", "Ltd" and "Holdings", each with and without a trailing dot
SuffixTokens ==
    { <<73, 110, 99>>, <<73, 110, 99, 46>>,
      <<76, 116, 100>>, <<76, 116, 100, 46>>,
      <<72, 111, 108, 100, 105, 110, 103, 115>>,
      <<72, 111, 108, 100, 105, 110, 103, 115, 46>> }

\* C20: on every snapshot, the query "Toyota" followed by a blank and a
\* corporate-suffix token returns the same list as the query "Toyota".
C20_SuffixStripping ==
    (ListedDone /\ dcall.search = Some(NameToyota)) =>
        \A token \in SuffixTokens :
            ListedMatches(Some(NameToyota \o <<32>> \o token), listed_cache)
                = dcall.ret

\* x is an element of the sequence s
InSeq(x, s) == \E j \in 1..Len(s) : s[j] = x

\* the entry holds its name in the native script and no transliteration
NativeOnly(item) == item.name = NameToyotaKana /\ item.name_en = <<>>

\* C21: an entry of the snapshot whose name is stored in the native script
\* only is returned both for the query "Toyota" and for the query in the
\* native script.
C21_ScriptFolding ==
    ListedDone =>
        \A i \in 1..Len(listed_cache) :
            NativeOnly(listed_cache[i]) =>
                /\ InSeq(listed_cache[i],
                         ListedMatches(Some(NameToyota), listed_cache))
                /\ InSeq(listed_cache[i],
                         ListedMatches(Some(NameToyotaKana), listed_cache))

\* the three spellings of a normalized query, and the three normalized
\* fields of an entry
C22_Spellings(q) == {q, ToKatakana(q), ToHiragana(q)}
C22_Fields(item) ==
    { NormalizeQuery(OrdSeq(item.symbol)),
      NormalizeQuery(item.name),
      NormalizeQuery(item.name_en) }
C22_Selected(q, item) ==
    \E v \in C22_Spellings(q), f \in C22_Fields(item) : Contains(v, f)

\* the j-th smallest index of the set K
NthIndex(K, j) == CHOOSE i \in K : Cardinality({k \in K : k < i}) = j - 1

\* the query with its Latin letters in upper case, and with an ASCII or a
\* full-width blank put in front, in the middle or at the end
UpperCp(c) == IF c \in 97..122 THEN c - 32 ELSE c
Respellings(s) ==
    { [i \in 1..Len(s) |-> UpperCp(s[i])] }
    \cup { SubSeq(s, 1, p) \o <<b>> \o SubSeq(s, p + 1, Len(s)) :
               p \in {0, Len(s) \div 2, Len(s)}, b \in {32, 12288} }

\* C22: for a query whose normalized form is not empty, get_listed_stocks
\* returns exactly the entries of the snapshot, in snapshot order and each
\* once, for which the normalized query as typed, folded to katakana or
\* folded to hiragana is a substring of the normalized symbol, name or
\* transliterated name; letter case and ASCII or full-width blanks in the
\* query do not change the result.
C22_SearchFilter ==
    (ListedDone /\ dcall.search # None
        /\ NormalizeQuery(The(dcall.search)) # <<>>) =>
        LET q == NormalizeQuery(The(dcall.search))
            K == {i \in 1..Len(listed_cache) :
                      C22_Selected(q, listed_cache[i])}
        IN  /\ Len(dcall.ret) = Cardinality(K)
            /\ \A j \in 1..Len(dcall.ret) :
                   dcall.ret[j] = listed_cache[NthIndex(K, j)]
            /\ \A v \in Respellings(The(dcall.search)) :
                   ListedMatches(Some(v), listed_cache) = dcall.ret

\* a hiragana query returned the two katakana-named entries of a snapshot
\* of four, in snapshot order
C22_Witness ==
    /\ ListedDone
    /\ dcall.search = Some(NameToyotaHira)
    /\ Len(listed_cache) = 4
    /\ dcall.ret = <<listed_cache[1], listed_cache[2]>>
    /\ listed_cache[1] # listed_cache[2]
    /\ listed_cache[1].name = NameToyotaKana

(***************************************************************************)
(* Rankings: get_stock_rankings of routers/stocks.py.  SpecPopular runs    *)
(* calls with scope "popular", each of them a call of fetch_stock_data on  *)
(* the configured symbols followed by the sort.  Prices and percentages    *)
(* are whole numbers.                                                      *)
(***************************************************************************)
\* limit: Query(5, ge=1, le=50)
RankLimits == LIMIT_MIN..MaxLimit

\* POPULAR_STOCK_SYMBOLS is read from the environment, each symbol stripped
\* and not empty: the default, and lists with symbols that are not canonical
PopularConfigs ==
    { DefaultPopularSymbols,
      << <<"7", ".", "T">>, <<"a">> >>,
      << <<"7">>, <<"7", ".", "T">>, <<"A">> >> }

\* the primary provider during a ranking call: a price against a previous
\* close of 100, or no answer
RankPrices == {92, 100, 110}
RankEnvs ==
    {[ticker |-> "ok",
      fast |-> [kind |-> "ok", price |-> Some(p), previous_close |-> Some(100)],
      info |-> [kind |-> "error", price |-> None, named |-> FALSE,
                previous_close |-> None],
      dividends |-> "ok"] : p \in RankPrices}
    \cup
    {[ticker |-> "ok",
      fast |-> [kind |-> "error", price |-> None, previous_close |-> None],
      info |-> [kind |-> "error", price |-> None, named |-> FALSE,
                previous_close |-> None],
      dividends |-> "ok"]}

Min(a, b) == IF a <= b THEN a ELSE b

\* s[:n]
Take(s, n) == SubSeq(s, 1, Min(n, Len(s)))

\* sorted(entries, key=change_pct, reverse=reverse): the sort is stable, so
\* an entry goes behind the entries it does not strictly precede
RECURSIVE InsertByChange(_, _, _)
InsertByChange(e, sorted, reverse) ==
    IF sorted = <<>> THEN <<e>>
    ELSE IF (IF reverse THEN e.change_pct > Head(sorted).change_pct
             ELSE e.change_pct < Head(sorted).change_pct)
    THEN <<e>> \o sorted
    ELSE <<Head(sorted)>> \o InsertByChange(e, Tail(sorted), reverse)

RECURSIVE SortedByChange(_, _)
SortedByChange(entries, reverse) ==
    IF entries = <<>> THEN <<>>
    ELSE InsertByChange(entries[Len(entries)],
                        SortedByChange(SubSeq(entries, 1, Len(entries) - 1),
                                       reverse),
                        reverse)

\* mutant: the gainers are sorted without reverse=True
TopGainers_Ascending(entries, limit) ==
    Take(SortedByChange(entries, FALSE), limit)

TopGainers(entries, limit) == Take(SortedByChange(entries, TRUE), limit)
TopLosers(entries, limit) == Take(SortedByChange(entries, FALSE), limit)

\* "metrics.get(...) or 0.0"
OrZero(opt) == IF Truthy(opt) THEN The(opt) ELSE 0

StockRankingEntry(symbol, metrics) ==
    [symbol |-> symbol, price |-> OrZero(metrics.price),
     change_pct |-> OrZero(metrics.change_pct)]

\* the loop over symbols_to_use: realtime_data.get(symbol), by the symbol
\* as configured
RECURSIVE PopularEntries(_, _)
PopularEntries(syms, realtime_data) ==
    IF syms = <<>> THEN <<>>
    ELSE (IF Head(syms) \in DOMAIN realtime_data
          THEN <<StockRankingEntry(Head(syms), realtime_data[Head(syms)])>>
          ELSE <<>>)
         \o PopularEntries(Tail(syms), realtime_data)

\* mutant: the two "if not ...: raise HTTPException(503)" are missing
PopularStatus_EmptyOk(failed, realtime_data, entries) ==
    IF failed THEN 503 ELSE 200

\* the status of the response: 503 when fetch_stock_data raised, returned
\* an empty mapping or left no entry
PopularStatus(failed, realtime_data, entries) ==
    IF failed THEN 503
    ELSE IF realtime_data = EmptyMap THEN 503
    ELSE IF entries = <<>> THEN 503
    ELSE 200

\* GET /stocks/rankings?scope=popular: the call of fetch_stock_data
CallGetStockRankings(limit) ==
    /\ rcall.pc = "idle"
    /\ pc = "idle"
    /\ rcall' = [NoRank EXCEPT !.pc = "fetch", !.scope = "popular",
                               !.limit = limit]
    /\ pc' = IF popular_symbols = <<>> THEN "return" ELSE "cache"
    /\ kind' = "basic"
    /\ symbols' = popular_symbols
    /\ idx' = 1
    /\ UNCHANGED <<results, ret, raised, cur, outcomes, lastCached, nprocessed>>
    /\ UNCHANGED <<now, timeNow, cacheVars, tokenVars, refresh_configured,
                   dirVars, popular_symbols, market_movers_cache,
                   market_movers_expiry, botVars, last_request_time,
                   threadVars>>

\* fetch_stock_data returned (or raised): the entries, the two sorts and
\* the response
PopularResponse ==
    /\ rcall.pc = "fetch"
    /\ pc = "return"
    /\ LET entries == IF raised THEN <<>>
                      ELSE PopularEntries(popular_symbols, results)
           status == PopularStatus(raised, results, entries)
       IN  rcall' = [rcall EXCEPT
                        !.pc = "done",
                        !.status = status,
                        !.realtime_data = results,
                        !.entries = entries,
                        !.top_gainers = IF status = 200
                                        THEN TopGainers(entries, rcall.limit)
                                        ELSE <<>>,
                        !.top_losers = IF status = 200
                                       THEN TopLosers(entries, rcall.limit)
                                       ELSE <<>>]
    /\ pc' = "idle"
    /\ kind' = "none"
    /\ symbols' = <<>>
    /\ idx' = 0
    /\ results' = EmptyMap
    /\ ret' = None
    /\ raised' = FALSE
    /\ cur' = NoCur
    /\ outcomes' = <<>>
    /\ UNCHANGED <<lastCached, nprocessed>>
    /\ UNCHANGED <<now, timeNow, cacheVars, tokenVars, refresh_configured,
                   dirVars, popular_symbols, market_movers_cache,
                   market_movers_expiry, botVars, last_request_time,
                   threadVars>>

\* the client has the response
RankReturn ==
    /\ rcall.pc = "done"
    /\ rcall' = [NoRank EXCEPT !.universe = rcall.universe]
    /\ UNCHANGED <<now, timeNow, cacheVars, tokenVars, refresh_configured,
                   dirVars, popular_symbols, market_movers_cache,
                   market_movers_expiry, botVars, last_request_time,
                   chainVars, threadVars>>

InitPopular ==
    /\ InitState /\ InitChain /\ InitThreads /\ InitDir /\ InitBot
    /\ popular_symbols \in PopularConfigs
    /\ market_movers_cache = None
    /\ market_movers_expiry = None
    /\ rcall = NoRank

NextPopular ==
    \/ \E limit \in RankLimits : CallGetStockRankings(limit)
    \/ StepCache
    \/ \E env \in RankEnvs : StepPrimary(env)
    \/ \E x \in ExchangeResponses, q \in QuoteResponses : StepSecondary(x, q)
    \/ StepStatic
    \/ NextSymbol
    \/ PopularResponse
    \/ RankReturn

SpecPopular == InitPopular /\ [][NextPopular]_vars

(***************************************************************************)
(* Claims about the popular ranking, checked under SpecPopular.            *)
(***************************************************************************)
\* a popular ranking call has its response
PopularDone == rcall.pc = "done" /\ rcall.scope = "popular"

\* the change percentages of a list of entries
Changes(list) == [i \in 1..Len(list) |-> list[i].change_pct]

\* top is made of k different places of entries, and no entry left out
\* comes before top's last one in the order given
IsTopOf(top, entries, k, before(_, _)) ==
    /\ Len(top) = k
    /\ \A i, j \in 1..k : i < j => ~before(top[j].change_pct, top[i].change_pct)
    /\ \E f \in [1..k -> 1..Len(entries)] :
           /\ \A i, j \in 1..k : i # j => f[i] # f[j]
           /\ \A i \in 1..k : top[i] = entries[f[i]]
           /\ \A m \in 1..Len(entries) :
                  (\A i \in 1..k : f[i] # m) =>
                      ~before(entries[m].change_pct, top[k].change_pct)

\* entries with the change percentages 5, -3, 0, 10, -8
ExampleEntries ==
    [i \in 1..5 |->
        [symbol |-> <<"7">>, price |-> 100,
         change_pct |-> <<5, -3, 0, 10, -8>>[i]]]

\* C23: a successful popular ranking returns as top_gainers the first
\* min(limit, n) of its n entries in descending order of change_pct and as
\* top_losers the first min(limit, n) in ascending order; entries with the
\* changes 5, -3, 0, 10, -8 and limit 3 give 10, 5, 0 and -8, -3, 0.
C23_PopularOrder ==
    /\ (PopularDone /\ rcall.status = 200) =>
           LET k == Min(rcall.limit, Len(rcall.entries))
           IN  /\ IsTopOf(rcall.top_gainers, rcall.entries, k,
                          LAMBDA a, b : a > b)
               /\ IsTopOf(rcall.top_losers, rcall.entries, k,
                          LAMBDA a, b : a < b)
    /\ Changes(TopGainers(ExampleEntries, 3)) = <<10, 5, 0>>
    /\ Changes(TopLosers(ExampleEntries, 3)) = <<-8, -3, 0>>

\* three entries, two of them asked for: the gainers 10 and 0, the losers
\* -8 and 0
C23_Witness ==
    /\ PopularDone
    /\ rcall.status = 200
    /\ rcall.limit = 2
    /\ Changes(rcall.entries) = <<0, 10, -8>>
    /\ Changes(rcall.top_gainers) = <<10, 0>>
    /\ Changes(rcall.top_losers) = <<-8, 0>>

\* no configured symbol is a key of the mapping fetch_stock_data returned
NoUsableRecord ==
    \A i \in 1..Len(popular_symbols) :
        popular_symbols[i] \notin DOMAIN rcall.realtime_data

\* C24: a popular ranking call for which fetch_stock_data returned an
\* empty mapping, or a mapping with none of the configured symbols, answers
\* 503; a successful response has neither list empty.
C24_PopularNeverEmpty ==
    PopularDone =>
        /\ NoUsableRecord => rcall.status = 503
        /\ rcall.status = 200 =>
               rcall.top_gainers # <<>> /\ rcall.top_losers # <<>>
        /\ rcall.status \in {200, 503}

\* 503 on an empty mapping
C24_Witness ==
    /\ PopularDone
    /\ rcall.realtime_data = EmptyMap
    /\ rcall.status = 503
    /\ rcall.top_gainers = <<>>

(***************************************************************************)
(* Full-universe ranking: get_stock_rankings with scope "all", that is     *)
(* get_market_movers_all on the pages of _fetch_jquants_daily_quotes_all.  *)
(* SpecMovers runs such calls, with calls of fetch_stock_data in between,  *)
(* against a clock that advances MoversTickMinutes at a time.              *)
(***************************************************************************)
\* a raw entry of GET /prices/daily_quotes
RawQuote(code, close, previous_close, change_pct) ==
    [code |-> code, close |-> close, previous_close |-> previous_close,
     change_pct |-> change_pct]

\* the pages the provider may answer with
QuotePages ==
    { <<>>,
      << RawQuote(Some(<<"7">>), Some(110), Some(100), None),
         RawQuote(Some(<<"A">>), Some(92), None, Some(-8)) >>,
      << RawQuote(Some(<<" ">>), Some(100), Some(100), None),
         RawQuote(Some(<<"7", "7">>), Some(100), Some(100), None) >> }

\* one turn of the loop of get_market_movers_all over the quotes
MoversEntry(quote) ==
    LET symbol == Strip(OrStr(quote.code, <<>>))
        price == OrZero(quote.close)
        prev == quote.previous_close
        given == IF Truthy(quote.change_pct) THEN quote.change_pct ELSE None
        change_pct == IF given = None /\ Truthy(prev)
                      THEN Some(((price - The(prev)) * 100) \div The(prev))
                      ELSE given
    IN  IF symbol = <<>> THEN None
        ELSE Some([symbol |-> symbol, price |-> price,
                   change_pct |-> OrZero(change_pct)])

RECURSIVE MoversEntries(_)
MoversEntries(quotes) ==
    IF quotes = <<>> THEN <<>>
    ELSE LET e == MoversEntry(Head(quotes))
         IN  (IF e = None THEN <<>> ELSE <<The(e)>>)
             \o MoversEntries(Tail(quotes))

\* mutant: a snapshot is served whatever its age
MoversCacheLive_IgnoreExpiry ==
    market_movers_cache # None /\ market_movers_expiry # None

\* "_market_movers_cache and _market_movers_expiry and now < expiry": the
\* cache is None or a dict with the keys top_gainers and top_losers, and
\* such a dict is true whatever its lists hold
MoversCacheLive ==
    /\ market_movers_cache # None
    /\ market_movers_expiry # None
    /\ now < The(market_movers_expiry)

\* GET /stocks/rankings?scope=all: get_market_movers_all answers from its
\* cache, or opens the paginated fetch of the quotes
CallGetStockRankingsAll(limit, x) ==
    /\ rcall.pc = "idle"
    /\ dcall.pc = "idle"
    /\ pc = "idle"
    /\ LET call == [NoRank EXCEPT
                       !.scope = "all",
                       !.limit = limit,
                       !.universe = rcall.universe,
                       !.before = [cache |-> market_movers_cache,
                                   expiry |-> market_movers_expiry]]
       IN  IF MoversCacheLive
           THEN /\ rcall' = [call EXCEPT
                                !.pc = "done",
                                !.status = 200,
                                !.served = "cache",
                                !.top_gainers = The(market_movers_cache).top_gainers,
                                !.top_losers = The(market_movers_cache).top_losers]
                /\ UNCHANGED <<tokenVars, dcall>>
           ELSE /\ rcall' = [call EXCEPT !.pc = "quotes", !.served = "computed"]
                /\ OpenFetch("quotes", None, x)
    /\ UNCHANGED <<now, timeNow, cacheVars, refresh_configured,
                   last_request_time, chainVars, threadVars, listed_cache,
                   listed_cache_expiry, popular_symbols, market_movers_cache,
                   market_movers_expiry, botVars>>

\* the quotes are in: the entries, the two sorts, the snapshot and the
\* response
MoversCompute ==
    /\ rcall.pc = "quotes"
    /\ dcall.pc = "done"
    /\ LET entries == MoversEntries(dcall.ret)
           top_gainers == TopGainers(entries, rcall.limit)
           top_losers == TopLosers(entries, rcall.limit)
       IN  /\ market_movers_cache' = Some([top_gainers |-> top_gainers,
                                           top_losers |-> top_losers])
           /\ market_movers_expiry' = Some(now + MARKET_MOVERS_CACHE_DURATION)
           /\ rcall' = [rcall EXCEPT
                           !.pc = "done",
                           !.status = 200,
                           !.entries = entries,
                           !.universe = entries,
                           !.requests = dcall.requests,
                           !.posts = dcall.posts,
                           !.top_gainers = top_gainers,
                           !.top_losers = top_losers]
    /\ dcall' = NoCall
    /\ UNCHANGED <<now, timeNow, cacheVars, tokenVars, refresh_configured,
                   last_request_time, chainVars, threadVars, listed_cache,
                   listed_cache_expiry, popular_symbols, botVars>>

\* MoversTickMinutes minutes pass between two calls
TickMovers ==
    /\ rcall.pc = "idle"
    /\ dcall.pc = "idle"
    /\ pc = "idle"
    /\ now < MaxMoversTicks * MoversTickMinutes
    /\ now' = now + MoversTickMinutes
    /\ timeNow' = timeNow + MoversTickMinutes * TicksPerMinute
    /\ UNCHANGED <<cacheVars, tokenVars, restVars, last_request_time,
                   chainVars, threadVars>>

\* the first call of fetch_stock_data, on one symbol, while a snapshot is
\* cached
QuoteFetchBetween ==
    /\ rcall.pc = "idle"
    /\ dcall.pc = "idle"
    /\ market_movers_cache # None
    /\ nprocessed = 0
    /\ CallFetchStockData(<< <<"7">> >>)

\* the primary provider during that call: the price 100, or no answer
MoversEnvs == {env \in RankEnvs : env.fast.price \in {None, Some(100)}}

NextMovers ==
    \/ \E limit \in RankLimits, x \in ExchangeResponses :
           CallGetStockRankingsAll(limit, x)
    \/ \E resp \in PageResponses(QuotePages) : ListedPageRequest(resp)
    \/ MoversCompute
    \/ RankReturn
    \/ TickMovers
    \/ QuoteFetchBetween
    \/ StepCache
    \/ \E env \in MoversEnvs : StepPrimary(env)
    \/ \E x \in ExchangeResponses, q \in QuoteResponses : StepSecondary(x, q)
    \/ StepStatic
    \/ NextSymbol
    \/ Return

SpecMovers == Init /\ [][NextMovers]_vars

(***************************************************************************)
(* Claims about the full-universe ranking, checked under SpecMovers.       *)
(***************************************************************************)
\* a full-universe ranking call has its response
MoversDone == rcall.pc = "done" /\ rcall.scope = "all"

\* C25: a full-universe ranking call never answers 200 with empty
\* top_gainers and top_losers, and the ranking cache never holds an empty
\* snapshot.
C25_MoversNeverEmpty ==
    /\ (MoversDone /\ rcall.status = 200) =>
           rcall.top_gainers # <<>> /\ rcall.top_losers # <<>>
    /\ market_movers_cache # None =>
           /\ The(market_movers_cache).top_gainers # <<>>
           /\ The(market_movers_cache).top_losers # <<>>

\* the call found a snapshot that had not expired
FoundLiveMovers ==
    /\ rcall.before.cache # None
    /\ rcall.before.expiry # None
    /\ now < The(rcall.before.expiry)

MoversAnswers ==
    MoversDone =>
        IF FoundLiveMovers
        THEN /\ rcall.served = "cache"
             /\ rcall.requests = 0
             /\ rcall.posts = 0
             /\ rcall.top_gainers = The(rcall.before.cache).top_gainers
             /\ rcall.top_losers = The(rcall.before.cache).top_losers
             /\ market_movers_cache = rcall.before.cache
             /\ market_movers_expiry = rcall.before.expiry
        ELSE /\ rcall.served = "computed"
             /\ market_movers_cache =
                    Some([top_gainers |-> rcall.top_gainers,
                          top_losers |-> rcall.top_losers])
             /\ rcall.top_gainers
                    = Take(SortedByChange(rcall.entries, TRUE), rcall.limit)
             /\ rcall.top_losers
                    = Take(SortedByChange(rcall.entries, FALSE), rcall.limit)
             /\ market_movers_expiry = Some(now + 30)

\* C26: a call that finds a snapshot computed less than 30 minutes ago
\* answers with it, sends no request and leaves snapshot and expiry alone;
\* a call that finds it 30 minutes old or older computes a new one, which
\* replaces the old one whole and expires 30 minutes later; no step of a
\* ranking call changes the quote cache and no step of fetch_stock_data
\* changes the ranking snapshot.
C26_MoversCache ==
    /\ []MoversAnswers
    /\ [][ /\ (rcall.pc # "idle" \/ rcall'.pc # "idle") => UNCHANGED cacheVars
           /\ (pc # "idle" \/ pc' # "idle") =>
                  UNCHANGED <<market_movers_cache, market_movers_expiry>> ]_vars

\* a call at the very minute the snapshot expires computed another one,
\* with an entry in the quote cache
C26_Witness ==
    /\ MoversDone
    /\ rcall.before.cache # None
    /\ now = The(rcall.before.expiry)
    /\ rcall.served = "computed"
    /\ rcall.requests > 0
    /\ market_movers_cache # rcall.before.cache
    /\ stock_cache # EmptyMap

\* C27: every full-universe ranking call returns min(limit, n) gainers in
\* descending and min(limit, n) losers in ascending order of change_pct,
\* n being the number of entries of the snapshot.
C27_MoversLimit ==
    MoversDone =>
        LET k == Min(rcall.limit, Len(rcall.universe))
        IN  /\ IsTopOf(rcall.top_gainers, rcall.universe, k, LAMBDA a, b : a > b)
            /\ IsTopOf(rcall.top_losers, rcall.universe, k, LAMBDA a, b : a < b)

(***************************************************************************)
(* The quote cache under concurrent requests: SpecCacheThreads runs        *)
(* threads that each call _set_cache or _get_cached_data once on the same  *)
(* symbol, statement by statement, against a clock of minutes.             *)
(***************************************************************************)
CacheSymbol == <<"7">>

\* the record a thread writes, told apart by its price
CacheData(p) == Record(CacheSymbol, Some(p), "yahoo_finance", FALSE, FALSE)
CachePrices == {100, 110}

\* the entry an earlier _set_cache left at minute 0
OldData == CacheData(92)
OldExpiry == CACHE_DURATION

\* a thread's locals in _set_cache and _get_cached_data: the record to
\* write and the expiry written with it; what the reader found under
\* _cache_expiry, whether it found nothing there, and what it returned
NoCacheLocals ==
    [op |-> "none", data |-> None, written |-> None, seen |-> None,
     orphan |-> FALSE, ret |-> None]

InitCacheThreads ==
    /\ now = 0
    /\ timeNow = MinInterval
    /\ \/ stock_cache = EmptyMap /\ cache_expiry = EmptyMap
       \/ /\ stock_cache = (CacheSymbol :> OldData)
          /\ cache_expiry = (CacheSymbol :> OldExpiry)
    /\ jquants_id_token = None
    /\ jquants_token_expiry = None
    /\ refresh_configured = FALSE
    /\ last_request_time = 0
    /\ InitChain /\ InitDir /\ InitRank /\ InitBot
    /\ tpc = [t \in Threads |-> "idle"]
    /\ tloc = [t \in Threads |-> NoCacheLocals]
    /\ hist = NoHist

\* the frame of a step of a cache thread
CacheThreadFrame ==
    UNCHANGED <<now, timeNow, tokenVars, restVars, last_request_time,
                chainVars, hist>>

\* a request thread enters _set_cache(symbol, data)
CsCall(t, data) ==
    /\ tpc[t] = "idle"
    /\ tpc' = [tpc EXCEPT ![t] = "set_data"]
    /\ tloc' = [tloc EXCEPT ![t] = [NoCacheLocals EXCEPT !.op = "set",
                                                         !.data = Some(data)]]
    /\ UNCHANGED cacheVars
    /\ CacheThreadFrame

\* _stock_cache[cleaned] = data
CsStoreData(t) ==
    /\ tpc[t] = "set_data"
    /\ stock_cache' = SetCacheData(CacheSymbol, The(tloc[t].data))
    /\ tpc' = [tpc EXCEPT ![t] = "set_expiry"]
    /\ UNCHANGED <<cache_expiry, tloc>>
    /\ CacheThreadFrame

\* _cache_expiry[cleaned] = datetime.now() + _CACHE_DURATION
CsStoreExpiry(t) ==
    /\ tpc[t] = "set_expiry"
    /\ cache_expiry' = SetCacheExpiry(CacheSymbol)
    /\ tloc' = [tloc EXCEPT ![t].written = Some(now + CACHE_DURATION)]
    /\ tpc' = [tpc EXCEPT ![t] = "done"]
    /\ UNCHANGED stock_cache
    /\ CacheThreadFrame

\* a request thread enters _get_cached_data(symbol)
CgCall(t) ==
    /\ tpc[t] = "idle"
    /\ tpc' = [tpc EXCEPT ![t] = "get_contains"]
    /\ tloc' = [tloc EXCEPT ![t] = [NoCacheLocals EXCEPT !.op = "get"]]
    /\ UNCHANGED cacheVars
    /\ CacheThreadFrame

\* "if cleaned in _stock_cache"
CgContains(t) ==
    /\ tpc[t] = "get_contains"
    /\ tpc' = [tpc EXCEPT ![t] = IF CleanSymbol(CacheSymbol) \in DOMAIN stock_cache
                                 THEN "get_expiry" ELSE "done"]
    /\ UNCHANGED <<cacheVars, tloc>>
    /\ CacheThreadFrame

\* "if datetime.now() < _cache_expiry.get(cleaned, datetime.min)"
CgExpiry(t) ==
    /\ tpc[t] = "get_expiry"
    /\ LET cleaned == CleanSymbol(CacheSymbol)
           found == cleaned \in DOMAIN cache_expiry
           live == found /\ now < cache_expiry[cleaned]
       IN  /\ tloc' = [tloc EXCEPT
                          ![t].seen = IF found THEN Some(cache_expiry[cleaned])
                                      ELSE None,
                          ![t].orphan = ~found]
           /\ tpc' = [tpc EXCEPT ![t] = IF live THEN "get_record" ELSE "done"]
    /\ UNCHANGED cacheVars
    /\ CacheThreadFrame

\* "return _stock_cache[cleaned]"
CgRecord(t) ==
    /\ tpc[t] = "get_record"
    /\ tloc' = [tloc EXCEPT ![t].ret = Some(stock_cache[CleanSymbol(CacheSymbol)])]
    /\ tpc' = [tpc EXCEPT ![t] = "done"]
    /\ UNCHANGED cacheVars
    /\ CacheThreadFrame

\* a minute passes
TickCacheThreads ==
    /\ now < MaxMinutes
    /\ now' = now + 1
    /\ timeNow' = timeNow + TicksPerMinute
    /\ UNCHANGED <<cacheVars, tokenVars, restVars, last_request_time,
                   chainVars, threadVars>>

CacheThreadStep(t) ==
    \/ \E p \in CachePrices : CsCall(t, CacheData(p))
    \/ CsStoreData(t)
    \/ CsStoreExpiry(t)
    \/ CgCall(t)
    \/ CgContains(t)
    \/ CgExpiry(t)
    \/ CgRecord(t)

NextCacheThreads ==
    \/ \E t \in Threads : CacheThreadStep(t)
    \/ TickCacheThreads

SpecCacheThreads == InitCacheThreads /\ [][NextCacheThreads]_vars

(***************************************************************************)
(* Claim about the cache under concurrency, checked under                  *)
(* SpecCacheThreads.                                                       *)
(***************************************************************************)
\* the complete entries: the one found at the start, and (record, expiry)
\* of every _set_cache that has returned
CompleteEntries ==
    {<<OldData, OldExpiry>>}
    \cup {<<The(tloc[w].data), The(tloc[w].written)>> :
              w \in {t \in Threads : tloc[t].op = "set" /\ tpc[t] = "done"}}

\* C28: under every interleaving of _set_cache and _get_cached_data on one
\* symbol, a reader that returns a record returns it for the expiry that
\* was written with that record, and no reader finds a record in the cache
\* without an expiry.
C28_AtomicEntries ==
    \A r \in Threads :
        (tloc[r].op = "get" /\ tpc[r] = "done") =>
            /\ ~tloc[r].orphan
            /\ tloc[r].ret # None =>
                   <<The(tloc[r].ret), The(tloc[r].seen)>> \in CompleteEntries

(***************************************************************************)
(* Bot endpoints of routers/posts.py: POST /posts/bot/publish and          *)
(* POST /posts/bot/summary.  SpecBot runs requests one after the other     *)
(* (each is one database transaction) under every configuration of         *)
(* BOT_API_KEY and BOT_USER_ID.  Texts are sequences of parts.             *)
(***************************************************************************)
\* os.getenv("BOT_API_KEY") and os.getenv("BOT_USER_ID")
BotKeyConfigs == {None, Some(""), Some("test-key")}
BotUserConfigs == {None, Some("1"), Some("2"), Some("x")}

\* the stocks table: empty, the row of the tests, three rows of which
\* one has no change_pct, two rows with the same change_pct, or one row
\* without change_pct
StockTables ==
    { {},
      {StockRow(1, "7", Some(15))},
      {StockRow(1, "7", Some(15)), StockRow(2, "A", Some(-3)),
       StockRow(3, "B", None)},
      {StockRow(1, "7", Some(15)), StockRow(2, "A", Some(15))},
      {StockRow(3, "B", None)} }

\* the X-Bot-Key header of a request: missing, wrong, or the key
BotHeaders == {None, Some("invalid"), Some("test-key")}

\* schemas.BotPostCreate
BotPayloads ==
    [text : {"up"}, stock_symbol : {None, Some(""), Some("7"), Some("9")},
     event : {None, Some("Earnings")}]

\* Python truth value of an optional str
TruthyText(opt) == opt # None /\ The(opt) # ""

\* int(BOT_USER_ID): None when it raises ValueError
ParseInt(s) ==
    IF s = "1" THEN Some(1) ELSE IF s = "2" THEN Some(2) ELSE None

\* mutant: a request without the header is let through
EnforceBotKey_MissingPasses(header_value) ==
    IF TruthyText(bot_api_key) /\ header_value # None
       /\ header_value # bot_api_key
    THEN 403 ELSE 200

\* enforce_bot_key: 403 when it raises, 200 when it returns
EnforceBotKey(header_value) ==
    IF TruthyText(bot_api_key) /\ header_value # bot_api_key THEN 403 ELSE 200

\* get_bot_user: the status it raises, or 200 and the user's id
GetBotUser ==
    IF ~TruthyText(bot_user_id) THEN [status |-> 500, id |-> None]
    ELSE IF ParseInt(The(bot_user_id)) = None THEN [status |-> 500, id |-> None]
    ELSE IF The(ParseInt(The(bot_user_id))) \notin db_users
    THEN [status |-> 404, id |-> None]
    ELSE [status |-> 200, id |-> ParseInt(The(bot_user_id))]

\* db.query(models.Stock).filter(symbol == ...).first(): symbol is unique
FindStock(symbol) ==
    IF \E s \in db_stocks : s.symbol = symbol
    THEN Some(CHOOSE s \in db_stocks : s.symbol = symbol)
    ELSE None

\* a row of table posts
PostRow(id, user_id, text, post_type, stock_id) ==
    [id |-> id, user_id |-> user_id, text |-> text, post_type |-> post_type,
     stock_id |-> stock_id]

\* the text of a published post: the payload text, behind the event and
\* the stock when both are there
PublishText(payload, stock) ==
    IF TruthyText(payload.event) /\ stock # None
    THEN <<The(payload.event), The(stock).symbol, payload.text>>
    ELSE <<payload.text>>

\* mutant: a stock symbol that is not stored is passed over
PublishBotPostResult_NoLookupError(payload, header_value) ==
    LET bot_user == GetBotUser
        stock == IF TruthyText(payload.stock_symbol)
                 THEN FindStock(The(payload.stock_symbol)) ELSE None
    IN  IF EnforceBotKey(header_value) # 200
        THEN [status |-> 403, post |-> None]
        ELSE IF bot_user.status # 200
        THEN [status |-> bot_user.status, post |-> None]
        ELSE [status |-> 200,
              post |-> Some(PostRow(Len(db_posts) + 1, The(bot_user.id),
                                    PublishText(payload, stock), "bot",
                                    IF stock = None THEN None
                                    ELSE Some(The(stock).id)))]

\* publish_bot_post: the status, and the row it commits
PublishBotPostResult(payload, header_value) ==
    LET bot_user == GetBotUser
        stock == IF TruthyText(payload.stock_symbol)
                 THEN FindStock(The(payload.stock_symbol)) ELSE None
    IN  IF EnforceBotKey(header_value) # 200
        THEN [status |-> 403, post |-> None]
        ELSE IF bot_user.status # 200
        THEN [status |-> bot_user.status, post |-> None]
        ELSE IF TruthyText(payload.stock_symbol) /\ stock = None
        THEN [status |-> 404, post |-> None]
        ELSE [status |-> 200,
              post |-> Some(PostRow(Len(db_posts) + 1, The(bot_user.id),
                                    PublishText(payload, stock), "bot",
                                    IF stock = None THEN None
                                    ELSE Some(The(stock).id)))]

\* the response is recorded and the row, if any, is appended
BotRespond(endpoint, header_value, payload, r) ==
    /\ db_posts' = IF r.post = None THEN db_posts
                   ELSE Append(db_posts, The(r.post))
    /\ bresp' = [endpoint |-> endpoint, header |-> header_value,
                 payload |-> payload, status |-> r.status, post |-> r.post,
                 before |-> db_posts]
    /\ UNCHANGED <<bot_api_key, bot_user_id, db_users, db_stocks>>
    /\ UNCHANGED <<now, timeNow, cacheVars, tokenVars, refresh_configured,
                   dirVars, rankVars, last_request_time, chainVars, threadVars>>

\* POST /posts/bot/publish
PublishBotPost(payload, header_value) ==
    /\ Len(db_posts) < MaxPosts
    /\ BotRespond("publish", header_value, Some(payload),
                  PublishBotPostResult(payload, header_value))

\* the stocks with a change_pct that none exceeds (reverse: that exceeds
\* none): order_by(change_pct).first() returns one of them
FirstByChange(reverse) ==
    LET rated == {s \in db_stocks : s.change_pct # None}
    IN  {s \in rated :
            \A o \in rated :
                IF reverse THEN The(o.change_pct) <= The(s.change_pct)
                ELSE The(o.change_pct) >= The(s.change_pct)}

\* mutant: the line of the loser is written whenever a loser was found
MarketSummaryResult_AlwaysLoser(header_value, top_gainer, top_loser) ==
    LET bot_user == GetBotUser
    IN  IF EnforceBotKey(header_value) # 200
        THEN [status |-> 403, post |-> None]
        ELSE IF bot_user.status # 200
        THEN [status |-> bot_user.status, post |-> None]
        ELSE IF top_gainer = None
        THEN [status |-> 404, post |-> None]
        ELSE [status |-> 200,
              post |-> Some(PostRow(
                  Len(db_posts) + 1, The(bot_user.id),
                  <<"digest", The(top_gainer).symbol>>
                      \o (IF top_loser # None
                          THEN <<The(top_loser).symbol>> ELSE <<>>),
                  "bot", Some(The(top_gainer).id)))]

\* publish_market_summary with top_gainer and top_loser as queried
MarketSummaryResult(header_value, top_gainer, top_loser) ==
    LET bot_user == GetBotUser
    IN  IF EnforceBotKey(header_value) # 200
        THEN [status |-> 403, post |-> None]
        ELSE IF bot_user.status # 200
        THEN [status |-> bot_user.status, post |-> None]
        ELSE IF top_gainer = None
        THEN [status |-> 404, post |-> None]
        ELSE [status |-> 200,
              post |-> Some(PostRow(
                  Len(db_posts) + 1, The(bot_user.id),
                  <<"digest", The(top_gainer).symbol>>
                      \o (IF top_loser # None
                             /\ The(top_loser).id # The(top_gainer).id
                          THEN <<The(top_loser).symbol>> ELSE <<>>),
                  "bot", Some(The(top_gainer).id)))]

\* POST /posts/bot/summary
PublishMarketSummary(header_value) ==
    /\ Len(db_posts) < MaxPosts
    /\ \E g \in (IF FirstByChange(TRUE) = {} THEN {None}
                 ELSE {Some(s) : s \in FirstByChange(TRUE)}),
          l \in (IF FirstByChange(FALSE) = {} THEN {None}
                 ELSE {Some(s) : s \in FirstByChange(FALSE)}) :
           BotRespond("summary", header_value, None,
                      MarketSummaryResult(header_value, g, l))

InitBotAny ==
    /\ InitState /\ InitChain /\ InitThreads /\ InitDir /\ InitRank
    /\ bot_api_key \in BotKeyConfigs
    /\ bot_user_id \in BotUserConfigs
    /\ db_users = {1}
    /\ db_stocks \in StockTables
    /\ db_posts = <<>>
    /\ bresp = NoResponse

NextBot ==
    \/ \E payload \in BotPayloads, h \in BotHeaders : PublishBotPost(payload, h)
    \/ \E h \in BotHeaders : PublishMarketSummary(h)

SpecBot == InitBotAny /\ [][NextBot]_vars

(***************************************************************************)
(* Claims about the bot endpoints, checked under SpecBot.                  *)
(***************************************************************************)
\* C29: with a non-empty BOT_API_KEY, a request to /posts/bot/publish or
\* /posts/bot/summary whose X-Bot-Key header is missing or is not the key
\* is answered 403 and leaves the posts as they were.
C29_BotKeyRequired ==
    (bresp.endpoint # "none" /\ bot_api_key # None /\ bot_api_key # Some("")
        /\ bresp.header # bot_api_key) =>
        /\ bresp.status = 403
        /\ bresp.post = None
        /\ db_posts = bresp.before

\* a summary request without the header was turned down after a post had
\* been published
C29_Witness ==
    /\ bresp.endpoint = "summary"
    /\ bresp.header = None
    /\ bot_api_key = Some("test-key")
    /\ bresp.status = 403
    /\ Len(db_posts) = 1
    /\ db_posts = bresp.before

\* the request passed the key check, and BOT_USER_ID is the id of a user
KeyAccepted ==
    bot_api_key = None \/ bot_api_key = Some("") \/ bresp.header = bot_api_key
BotUserStored == \E u \in db_users : bot_user_id = Some(ToString(u))

\* C30: a publish request with a valid key (the bot user being configured
\* and stored) appends exactly one post of type "bot", owned by the bot
\* user, whose text contains the payload text and whose stock is the one
\* with the symbol stock_symbol; when stock_symbol is given and no stock
\* has it, the answer is 404 and no post is added.
C30_PublishCreatesPost ==
    (bresp.endpoint = "publish" /\ KeyAccepted /\ BotUserStored) =>
        LET payload == The(bresp.payload)
            given == payload.stock_symbol \notin {None, Some("")}
            stored == {s \in db_stocks : Some(s.symbol) = payload.stock_symbol}
        IN  IF given /\ stored = {}
            THEN /\ bresp.status = 404
                 /\ db_posts = bresp.before
            ELSE /\ bresp.status = 200
                 /\ Len(db_posts) = Len(bresp.before) + 1
                 /\ SubSeq(db_posts, 1, Len(bresp.before)) = bresp.before
                 /\ LET post == db_posts[Len(db_posts)]
                    IN  /\ bresp.post = Some(post)
                        /\ post.post_type = "bot"
                        /\ bot_user_id = Some(ToString(post.user_id))
                        /\ \E i \in 1..Len(post.text) :
                               post.text[i] = payload.text
                        /\ IF given
                           THEN \E s \in stored : post.stock_id = Some(s.id)
                           ELSE post.stock_id = None

\* the second post, published for the stored stock "7" with an event
C30_Witness ==
    /\ bresp.endpoint = "publish"
    /\ bot_api_key = Some("test-key")
    /\ bresp.header = Some("test-key")
    /\ bresp.status = 200
    /\ The(bresp.payload).stock_symbol = Some("7")
    /\ The(bresp.payload).event # None
    /\ Len(db_posts) = 2
    /\ db_posts[2].stock_id = Some(1)
    /\ db_posts[2].post_type = "bot"

\* the stocks with a change_pct, and those of them with the largest and
\* with the smallest one
Rated == {s \in db_stocks : s.change_pct # None}
Largest ==
    {s \in Rated : \A o \in Rated : The(o.change_pct) <= The(s.change_pct)}
Smallest ==
    {s \in Rated : \A o \in Rated : The(o.change_pct) >= The(s.change_pct)}

\* C31: a summary request with a valid key (the bot user being configured
\* and stored) appends one post of type "bot" that names and is linked to
\* a stock with the largest change_pct among the stocks that have one; the
\* post has a line for the loser exactly when the stock found with the
\* smallest change_pct is another stock; when no stock has a change_pct
\* the answer is 404 and no post is added.
C31_SummaryTopGainer ==
    (bresp.endpoint = "summary" /\ KeyAccepted /\ BotUserStored) =>
        IF Rated = {}
        THEN /\ bresp.status = 404
             /\ db_posts = bresp.before
        ELSE /\ bresp.status = 200
             /\ Len(db_posts) = Len(bresp.before) + 1
             /\ SubSeq(db_posts, 1, Len(bresp.before)) = bresp.before
             /\ LET post == db_posts[Len(db_posts)]
                IN  /\ bresp.post = Some(post)
                    /\ post.post_type = "bot"
                    /\ bot_user_id = Some(ToString(post.user_id))
                    /\ Len(post.text) \in {2, 3}
                    /\ \E g \in Largest :
                           /\ post.stock_id = Some(g.id)
                           /\ post.text[2] = g.symbol
                           /\ Len(post.text) = 3 =>
                                  \E l \in Smallest :
                                      l.id # g.id /\ post.text[3] = l.symbol
                           /\ Len(post.text) = 2 => g \in Smallest

\* a digest over three stocks, one of them without change_pct: it is
\* linked to the gainer and has the line of the loser
C31_Witness ==
    /\ bresp.endpoint = "summary"
    /\ bresp.status = 200
    /\ bresp.header = Some("test-key")
    /\ bot_api_key = Some("test-key")
    /\ Cardinality(db_stocks) = 3
    /\ Len(db_posts) = 1
    /\ db_posts[1].stock_id = Some(1)
    /\ db_posts[1].text = <<"digest", "7", "A">>

(***************************************************************************)
(* Single attempts on the primary provider: SpecAttempt runs               *)
(* _fetch_yfinance_data and _try_yahoo_finance_detailed one call at a time *)
(* and keeps, in hist, what the provider answered, the requests the        *)
(* attempt sent and what it returned.                                      *)
(***************************************************************************)
NoAttempt ==
    [fn |-> "none", symbol |-> <<>>, env |-> None, reqs |-> <<>>,
     result |-> Returned(None)]

InitAttempt ==
    /\ InitState /\ InitChain /\ InitDir /\ InitRank /\ InitBot
    /\ tpc = [t \in Threads |-> "idle"]
    /\ tloc = [t \in Threads |-> NoLocals]
    /\ hist = NoAttempt

AttemptFrame ==
    UNCHANGED <<now, timeNow, cacheVars, tokenVars, restVars, chainVars,
                tpc, tloc>>

\* _fetch_yfinance_data(symbol)
AttemptBasic(symbol, env) ==
    /\ hist' = [fn |-> "basic", symbol |-> symbol, env |-> Some(env),
                reqs |-> YfRequests(env),
                result |-> FetchYfinanceData(symbol, env)]
    /\ last_request_time' = timeNow
    /\ AttemptFrame

\* _try_yahoo_finance_detailed(symbol, yf_symbol)
AttemptDetailed(symbol, env) ==
    /\ hist' = [fn |-> "detailed", symbol |-> symbol, env |-> Some(env),
                reqs |-> YfDetailedRequests(env),
                result |-> TryYahooFinanceDetailed(
                              CleanSymbol(symbol), NormalizeSymbol(symbol), env)]
    /\ last_request_time' = timeNow
    /\ AttemptFrame

NextAttempt ==
    \/ \E s \in RawSymbols, env \in PrimaryEnvs : AttemptBasic(s, env)
    \/ \E s \in RawSymbols, env \in PrimaryEnvs : AttemptDetailed(s, env)

SpecAttempt == InitAttempt /\ [][NextAttempt]_vars

(***************************************************************************)
(* Claims about a primary-provider attempt, checked under SpecAttempt.     *)
(***************************************************************************)
\* an attempt was made, and fast_info answered it with a price
AttemptMade == hist.fn # "none"
FastHadPrice == AttemptMade /\ Truthy(FastPrice(The(hist.env)))

\* C32: in a primary-provider attempt no request to ticker.info is sent
\* when ticker.fast_info carried a price.
C32_InfoOnlyWithoutFastPrice ==
    FastHadPrice => ~InSeq("info", hist.reqs)

\* C32, as the code has it: every attempt whose ticker was created asks
\* for fast_info and then for info, whether or not fast_info carried a
\* price, unless fast_info failed with a rate-limit rejection; the price
\* of fast_info, when there is one, is the price of the record.
C32_InfoAlwaysQueried ==
    (AttemptMade /\ The(hist.env).ticker = "ok") =>
        LET env == The(hist.env)
        IN  /\ env.fast.kind = "ratelimit" => hist.reqs = <<"fast_info">>
            /\ env.fast.kind # "ratelimit" =>
                   /\ Len(hist.reqs) >= 2
                   /\ hist.reqs[1] = "fast_info"
                   /\ hist.reqs[2] = "info"
            /\ (Truthy(FastPrice(env)) /\ hist.result.data # None) =>
                   The(hist.result.data).price = FastPrice(env)

\* fast_info carried the price 100, info was asked all the same, and the
\* record has the price of fast_info
C32_Witness ==
    /\ hist.fn = "basic"
    /\ FastPrice(The(hist.env)) = Some(100)
    /\ The(hist.env).info.kind = "ok"
    /\ hist.reqs = <<"fast_info", "info">>
    /\ hist.result.data # None
    /\ The(hist.result.data).price = Some(100)

(***************************************************************************)
(* Claims about the steps of the chain, checked under SpecRaw.             *)
(***************************************************************************)
\* the answers with a rate-limit rejection that the code looks for: of
\* fast_info, or (detailed entry point only) of info
FastRateLimited ==
    {e \in PrimaryEnvs : e.ticker = "ok" /\ e.fast.kind = "ratelimit"}
InfoRateLimited ==
    {e \in PrimaryEnvs : e.ticker = "ok" /\ e.info.kind = "ratelimit"}
RateLimitDetected(k) ==
    FastRateLimited \cup (IF k = "detailed" THEN InfoRateLimited ELSE {})

SecondaryCallBasic(symbol) ==
    /\ dcall.pc = "idle"
    /\ CallFetchStockData(<<symbol>>)

SecondaryCallDetailed(symbol) ==
    /\ dcall.pc = "idle"
    /\ CallFetchStockDataDetailed(symbol)

SecondaryCallListed(x) ==
    /\ pc = "idle"
    /\ CallGetListedStocks(None, x)

SecondaryCallQuotesAll(x) ==
    /\ pc = "idle"
    /\ CallFetchDailyQuotesAll(x)

NextSecondary ==
    \/ \E symbol \in RawSymbols : SecondaryCallBasic(symbol)
    \/ \E symbol \in RawSymbols : SecondaryCallDetailed(symbol)
    \/ StepCache
    \/ \E env \in MoversEnvs : StepPrimary(env)
    \/ \E x \in ExchangeResponses, q \in QuoteResponses : StepSecondary(x, q)
    \/ StepStatic
    \/ NextSymbol
    \/ Return
    \/ \E x \in ExchangeResponses : SecondaryCallListed(x)
    \/ \E x \in ExchangeResponses : SecondaryCallQuotesAll(x)
    \/ \E resp \in PageResponses(ListedPages) : ListedPageRequest(resp)
    \/ InstallSnapshot
    \/ DirReturn

SpecSecondary == Init /\ [][NextSecondary]_vars

(***************************************************************************)
(* Claims about the secondary provider without a token, checked under      *)
(* SpecSecondary.                                                          *)
(***************************************************************************)
\* the requests that carry the bearer token
BearerRequests == {"daily_quotes", "listed_info", "statements"}

\* a paginated fetch whose token call returned None has sent no page
\* request and has no entries
PagesSkipped ==
    dcall.last = "notoken" =>
        /\ dcall.requests = 0
        /\ dcall.results = <<>>
        /\ dcall.ret = <<>>

\* a secondary step whose token call returns None sends no request with
\* the token, yields no record, stores nothing, and the static step is next
SecondarySkipped ==
    pc = "secondary" =>
        \A x \in ExchangeResponses :
            GetJquantsToken(jquants_id_token, jquants_token_expiry,
                            now, x).ret = None =>
                \A q \in QuoteResponses :
                    \/ /\ \A i \in (Len(cur.reqs) + 1)..Len(cur'.reqs) :
                              cur'.reqs[i] \notin BearerRequests
                       /\ cur'.result = None
                       /\ stock_cache' = stock_cache
                       /\ cache_expiry' = cache_expiry
                       /\ pc' = "static"
                       /\ idx' = idx
                    \/ ~StepSecondary(x, q)

\* C34: when _get_jquants_token() returns None no request that carries the
\* bearer token is sent - no daily quotes, listed info or statements by
\* the chain, no page by the paginated fetches -, the secondary step is a
\* miss and the static fallback is next.
C34_SkippedWithoutToken == []PagesSkipped /\ [][SecondarySkipped]_vars

\* without a refresh token the secondary step of a symbol was a miss that
\* sent nothing, and the static step is next
C34_Witness ==
    /\ ~refresh_configured
    /\ pc = "static"
    /\ cur.steps = <<"cache", "primary", "secondary">>
    /\ \A i \in 1..Len(cur.reqs) : cur.reqs[i] \notin BearerRequests
    /\ cur.result = None
    /\ cur.key \notin DOMAIN stock_cache

(***************************************************************************)
(* The search filter on kana: SpecKana applies get_listed_stocks to a      *)
(* snapshot of one entry, with the query in one kana script and the name   *)
(* of the entry in the other.                                              *)
(***************************************************************************)
\* a kana word is a sequence of pairs <<hiragana, katakana>> of code points
KanaPairs == { <<12392, 12488>>, <<12424, 12520>>, <<12383, 12479>> }

\* "ほーるでぃんぐす" / "ホールディングス"; the long-vowel mark is the
\* same code point in both scripts
HoldingsWord ==
    << <<12411, 12507>>, <<12540, 12540>>, <<12427, 12523>>,
       <<12391, 12487>>, <<12355, 12451>>, <<12435, 12531>>,
       <<12368, 12464>>, <<12377, 12473>> >>

ToyotaWord == << <<12392, 12488>>, <<12424, 12520>>, <<12383, 12479>> >>

KanaWords ==
    UNION {[1..n -> KanaPairs] : n \in 1..MaxKanaLen}
        \cup {HoldingsWord, ToyotaWord \o HoldingsWord}

InHiragana(word) == [i \in 1..Len(word) |-> word[i][1]]
InKatakana(word) == [i \in 1..Len(word) |-> word[i][2]]

\* a normalized entry of the snapshot with the given name
KanaItem(name) ==
    [symbol |-> <<"7">>, name |-> name, name_en |-> <<>>, market |-> None]

NoSearch ==
    [script |-> "none", query |-> <<>>, name |-> <<>>, search |-> <<>>,
     item |-> KanaItem(<<>>), ret |-> <<>>]

InitKana ==
    /\ InitState /\ InitChain /\ InitDir /\ InitRank /\ InitBot
    /\ tpc = [t \in Threads |-> "idle"]
    /\ tloc = [t \in Threads |-> NoLocals]
    /\ hist = NoSearch

\* get_listed_stocks(search) once the snapshot is the entry item
KanaSearch(script, query, name, search, item) ==
    /\ hist' = [script |-> script, query |-> query, name |-> name,
                search |-> search, item |-> item,
                ret |-> ListedMatches(Some(search), <<item>>)]
    /\ UNCHANGED <<now, timeNow, cacheVars, tokenVars, restVars, chainVars,
                   last_request_time, tpc, tloc>>

\* the query in hiragana, the name in katakana
SearchHiragana(query, name) ==
    KanaSearch("hiragana", query, name, InHiragana(query),
               KanaItem(InKatakana(name)))

\* the query in katakana, the name in hiragana
SearchKatakana(query, name) ==
    KanaSearch("katakana", query, name, InKatakana(query),
               KanaItem(InHiragana(name)))

NextKana ==
    \/ \E query \in KanaWords, name \in KanaWords : SearchHiragana(query, name)
    \/ \E query \in KanaWords, name \in KanaWords : SearchKatakana(query, name)

SpecKana == InitKana /\ [][NextKana]_vars

(***************************************************************************)
(* Claims about kana folding, checked under SpecKana.                      *)
(***************************************************************************)
\* C35: a query written in one kana script finds the entry whose name,
\* written in the other kana script, holds the corresponding word.
C35_KanaSymmetric ==
    (hist.script # "none" /\ Contains(hist.query, hist.name)) =>
        hist.ret = <<hist.item>>

(***************************************************************************)
(* Claims about the keys of a record, checked under SpecRaw.               *)
(***************************************************************************)
\* C36: _clean_symbol applied to its own output changes nothing, so the
\* key under which fetch_stock_data reports a record is the key under
\* which _set_cache stored it and _get_cached_data looks it up.
C36_CleanIdempotent ==
    /\ (kind # "none" /\ idx \in 1..Len(symbols)) =>
           CleanSymbol(Cleaned) = Cleaned
    /\ \A k \in DOMAIN results :
           /\ k \in DOMAIN stock_cache
           /\ stock_cache[k] = results[k]
           /\ GetCachedData(k) = Some(results[k])

FoundExpired == FoundSnapshot /\ now >= The(dcall.before.expiry)

\* C38: a call of get_listed_stocks that finds the snapshot expired and
\* whose fetch returns no entries replaces the non-empty snapshot by the
\* empty list and stamps a new expiry; a call that finds the snapshot empty
\* runs the fetch again, whatever the expiry that was stamped.
C38_FailedRefresh ==
    /\ (ListedDone /\ FoundExpired /\ dcall.results = <<>>) =>
           /\ dcall.served = "fetched"
           /\ listed_cache = <<>>
           /\ listed_cache_expiry = Some(now + LISTED_CACHE_DURATION * 60)
           /\ dcall.ret = <<>>
    /\ (dcall.fn = "listed" /\ dcall.before.cache = <<>>) =>
           /\ dcall.served = "fetched"
           /\ dcall.pc = "done" => dcall.last # "none"

\* the first page of the refresh was answered with another status than
\* 200, and the snapshot that had expired is gone
C38_Witness ==
    /\ ListedDone
    /\ FoundExpired
    /\ dcall.last = "non200"
    /\ dcall.requests = 1
    /\ dcall.results = <<>>
    /\ listed_cache = <<>>
    /\ listed_cache_expiry = Some(now + LISTED_CACHE_DURATION * 60)

\* the page answers that are failures
FailedPages == {[kind |-> k, items |-> <<>>] : k \in {"non200", "exception"}}

\* a page request of _fetch_jquants_listed_all that fails after a page
\* succeeded ends the loop with the entries fetched so far
PartialKept ==
    (dcall.fn = "listed" /\ dcall.pc = "page" /\ dcall.requests >= 1) =>
        \A resp \in FailedPages :
            \/ /\ dcall'.results = dcall.results
               /\ dcall'.pc = "install"
               /\ dcall'.last = resp.kind
            \/ ~ListedPageRequest(resp)

\* the fetch of the call ended with a failed page after a page succeeded
PartialFetch ==
    /\ ListedDone
    /\ dcall.served = "fetched"
    /\ dcall.last \in {"non200", "exception"}
    /\ dcall.requests >= 2

\* the entries of a partial fetch are the snapshot, stamped for 24 hours;
\* the snapshot carries no mark of how its fetch ended, and a call that
\* finds a non-empty one before its expiry serves it without any request
PartialInstalled ==
    /\ PartialFetch =>
           /\ listed_cache = NormalizeListed(dcall.results)
           /\ listed_cache_expiry = Some(now + LISTED_CACHE_DURATION * 60)
           /\ dcall.ret = ListedMatches(dcall.search, listed_cache)
    /\ (ListedDone /\ FoundSnapshot /\ now < The(dcall.before.expiry)) =>
           /\ dcall.served = "snapshot"
           /\ dcall.requests = 0
           /\ listed_cache = dcall.before.cache
           /\ listed_cache_expiry = dcall.before.expiry

\* C39: when a page request of _fetch_jquants_listed_all fails after at
\* least one page succeeded, the entries of the pages fetched before it are
\* returned, become the directory snapshot, and are served without another
\* fetch until the 24 hours are over.
C39_PartialSnapshot == []PartialInstalled /\ [][PartialKept]_vars

\* the second page request raised; the snapshot holds the entries of the
\* first page
C39_Witness ==
    /\ PartialFetch
    /\ dcall.last = "exception"
    /\ dcall.requests = 2
    /\ dcall.results # <<>>
    /\ listed_cache # <<>>
    /\ listed_cache = NormalizeListed(dcall.results)
    /\ listed_cache_expiry = Some(now + LISTED_CACHE_DURATION * 60)

(***************************************************************************)
(* Claims about the entries of the popular ranking, checked under          *)
(* SpecPopular.                                                            *)
(***************************************************************************)
\* C40: every configured symbol for which fetch_stock_data returned a
\* record has a ranking entry, and there are as many entries as records in
\* the returned mapping, also when a configured symbol is in lower case or
\* carries the suffix ".T".
C40_EveryRecordRanked ==
    PopularDone =>
        /\ Len(rcall.entries) = Cardinality(DOMAIN rcall.realtime_data)
        /\ \A i \in 1..Len(popular_symbols) :
               CleanSymbol(popular_symbols[i]) \in DOMAIN rcall.realtime_data =>
                   \E j \in 1..Len(rcall.entries) :
                       CleanSymbol(rcall.entries[j].symbol)
                           = CleanSymbol(popular_symbols[i])

====
